---- MODULE Spec2Model ----
(***************************************************************************)
(* Model of the gold price oracle: the GoldOracle contract (the ledger),   *)
(* the quote service (fetchGoldPrice, calculatePrices, getGoldPrices) and  *)
(* the updater (pricesChanged, updateContractPrices, updatePrices) with    *)
(* its two callers, the cron job and POST /update-prices.                  *)
(*                                                                         *)
(* Numbers.  TLC's integers are 32 bits wide and the 8-decimal prices of   *)
(* the program (6550000000, 203750000000) are not, so a price is kept as   *)
(* the pair [hi, lo] of its value hi * 10^8 + lo, 0 <= lo < 10^8: the      *)
(* whole dollars and the 8-decimal fraction.  A quote is an integer count  *)
(* of 1/10000 dollar (2037.50 USD is 20375000), the resolution of          *)
(* GRAMS_PER_OUNCE = 31.1035 = 311035 / 10000.  calculatePrices is         *)
(* computed in exact arithmetic; for every quote in Quotes the IEEE        *)
(* double computation of the source gives the same five integers.          *)
(***************************************************************************)
EXTENDS Integers, Sequences, FiniteSets, TLC

\* ---------------------------------------------------------------- bounds
MaxCycles == 2

\* ------------------------------------------------------ program constants
maxRetries == 3
DECIMALS == 100000000
GRAMS_PER_OUNCE_E4 == 311035
QuoteUnit == 10000
threshold == 10000
DefaultMaxFeeGwei == 50
DefaultPriorityFeeGwei == 30

\* The gas an update of the prices uses, as the README gives it.
UpdateGasUsed == 45000

\* GoldOracle.STALENESS_THRESHOLD, 1 hours, in seconds.
STALENESS_THRESHOLD == 3600

\* ------------------------------------------------- 8-decimal wide numbers
Raw(h, l) == [hi |-> h, lo |-> l]

RawZero == Raw(0, 0)

RawOfInt(i) == Raw(i \div DECIMALS, i % DECIMALS)

RawAdd(a, b) ==
  LET l == a.lo + b.lo
  IN  Raw(a.hi + b.hi + (l \div DECIMALS), l % DECIMALS)

RawSub(a, b) ==
  LET l == a.lo - b.lo
  IN  Raw(a.hi - b.hi + (l \div DECIMALS), l % DECIMALS)

RawGt(a, b) == a.hi > b.hi \/ (a.hi = b.hi /\ a.lo > b.lo)

RawPositive(a) == RawGt(a, RawZero)

RawNegative(a) == a.hi < 0

RECURSIVE FracDigits(_, _, _)
\* The first k decimal digits of r / den, 0 <= r < den, as an integer.
FracDigits(r, den, k) ==
  IF k = 0 THEN 0
  ELSE LET x == r * 10
       IN  (x \div den) * (10 ^ (k - 1)) + FracDigits(x % den, den, k - 1)

\* Math.floor(num / den * 10^8), den > 0, as a wide number.
FloorScaled(num, den) == Raw(num \div den, FracDigits(num % den, den, 8))

\* ------------------------------------------------------------- optionals
None == <<>>

Some(x) == <<x>>

\* ------------------------------------------------------------ quote source
\* Quotes the feed can carry in its price field, in QuoteUnit: negative,
\* zero, 2037.50 USD, 2037.5012 USD and 2037.51 USD per ounce.
Quotes == {-10000, 0, 20375000, 20375012, 20375100}

\* What one axios.get can end in: an error status, no response at all, a
\* body without a price field, a body whose price field is NaN, or a body
\* whose price field is q.
Responses ==
  {[kind |-> "status", price |-> 0], [kind |-> "noresponse", price |-> 0],
   [kind |-> "noprice", price |-> 0], [kind |-> "nan", price |-> 0]}
  \cup {[kind |-> "body", price |-> q] : q \in Quotes}

\* fetchGoldPrice on the response r: the data it returns, or the error it
\* throws.  A price of 0 is falsy and fails the test of line 27.
fetchGoldPrice(r) ==
  IF r.kind = "body" /\ r.price # 0
  THEN [ok |-> TRUE, price |-> r.price, error |-> "none"]
  ELSE IF r.kind = "status"
  THEN [ok |-> FALSE, price |-> 0, error |-> "GoldAPI request failed"]
  ELSE IF r.kind = "noresponse"
  THEN [ok |-> FALSE, price |-> 0, error |-> "GoldAPI did not respond"]
  ELSE [ok |-> FALSE, price |-> 0, error |-> "Invalid response format from GoldAPI"]

\* Math.floor(num / den * 10^k), den > 0, 0 <= k <= 8, as a wide number;
\* for k < 8 the value must stay below 2^31.
FloorScaledBy(num, den, k) ==
  IF k = 8 THEN FloorScaled(num, den)
  ELSE RawOfInt((num \div den) * (10 ^ k) + FracDigits(num % den, den, k))

\* Prices <<n, u>>, standing for n / 10^u dollars, on which the IEEE-754
\* product pricePerOunce * DECIMALS is the double just below the integer
\* n * 10^(8-u), so that Math.floor gives one less: 1024.09 * 100000000 is
\* 102408999999.99998.  On every other price the specifications below feed
\* to calculatePrices the five double results are the exact floors.
ProductBelowInteger ==
  {<<3, 4>>, <<10240900, 4>>, <<20481800, 4>>}
  \cup {<<n, 8>> : n \in {3, 6, 12, 24, 29, 48, 58, 59, 96, 105, 107, 116,
                          118, 127, 192, 201, 205, 210, 214, 223, 232, 236,
                          241, 245, 254, 384, 393}}

\* Math.floor(pricePerOunce * DECIMALS) for the price num / 10^u dollars.
FloorOunce(num, u) ==
  LET exact == FloorScaledBy(num, QuoteUnit, 12 - u)
  IN  IF <<num, u>> \in ProductBelowInteger
      THEN RawSub(exact, RawOfInt(1))
      ELSE exact

\* Mutant: the 22K and the 18K price change places.
calculatePricesAtKaratsSwapped(num, u) ==
  [pricePerGram    |-> FloorScaledBy(num, GRAMS_PER_OUNCE_E4, 12 - u),
   pricePerOunce   |-> FloorOunce(num, u),
   pricePerKarat24 |-> FloorScaledBy(num, GRAMS_PER_OUNCE_E4, 12 - u),
   pricePerKarat22 |-> FloorScaledBy(num * 18, GRAMS_PER_OUNCE_E4 * 24, 12 - u),
   pricePerKarat18 |-> FloorScaledBy(num * 22, GRAMS_PER_OUNCE_E4 * 24, 12 - u)]

\* Mutant: the karat prices are taken from the floored 24K price less one.
calculatePricesAtKaratsLow(num, u) ==
  [pricePerGram    |-> FloorScaledBy(num, GRAMS_PER_OUNCE_E4, 12 - u),
   pricePerOunce   |-> FloorOunce(num, u),
   pricePerKarat24 |-> FloorScaledBy(num, GRAMS_PER_OUNCE_E4, 12 - u),
   pricePerKarat22 |->
     RawSub(FloorScaledBy(num * 22, GRAMS_PER_OUNCE_E4 * 24, 12 - u), RawOfInt(1)),
   pricePerKarat18 |->
     RawSub(FloorScaledBy(num * 18, GRAMS_PER_OUNCE_E4 * 24, 12 - u), RawOfInt(1))]

\* calculatePrices on apiData.price = num / 10^u dollars, u = 4 or 8.
calculatePricesAt(num, u) ==
  [pricePerGram    |-> FloorScaledBy(num, GRAMS_PER_OUNCE_E4, 12 - u),
   pricePerOunce   |-> FloorOunce(num, u),
   pricePerKarat24 |-> FloorScaledBy(num, GRAMS_PER_OUNCE_E4, 12 - u),
   pricePerKarat22 |-> FloorScaledBy(num * 22, GRAMS_PER_OUNCE_E4 * 24, 12 - u),
   pricePerKarat18 |-> FloorScaledBy(num * 18, GRAMS_PER_OUNCE_E4 * 24, 12 - u)]

\* calculatePrices on apiData.price = price / QuoteUnit dollars.
calculatePrices(price) == calculatePricesAt(price, 4)

\* Mutant: the retry test off by one.
ShouldRetryInclusive(rc) == rc <= maxRetries

\* The test of getGoldPrices' catch block: retry once more?
ShouldRetry(rc) == rc < maxRetries

\* ------------------------------------------------------------ the decision
\* Mutant: the never-updated test left out.
pricesChangedNoInitTest(oldPrices, newPrices) ==
  LET gramDiff ==
        IF RawGt(oldPrices.pricePerGram, newPrices.pricePerGram)
        THEN RawSub(oldPrices.pricePerGram, newPrices.pricePerGram)
        ELSE RawSub(newPrices.pricePerGram, oldPrices.pricePerGram)
  IN  RawGt(gramDiff, RawOfInt(threshold))

\* Mutant: the threshold taken ten times too wide.
pricesChangedTenfoldThreshold(oldPrices, newPrices) ==
  IF oldPrices.lastUpdated = 0 THEN TRUE
  ELSE LET gramDiff ==
             IF RawGt(oldPrices.pricePerGram, newPrices.pricePerGram)
             THEN RawSub(oldPrices.pricePerGram, newPrices.pricePerGram)
             ELSE RawSub(newPrices.pricePerGram, oldPrices.pricePerGram)
       IN  RawGt(gramDiff, RawOfInt(threshold * 10))

\* Mutant: a difference equal to the threshold counts as a change.
pricesChangedInclusive(oldPrices, newPrices) ==
  IF oldPrices.lastUpdated = 0 THEN TRUE
  ELSE LET gramDiff ==
             IF RawGt(oldPrices.pricePerGram, newPrices.pricePerGram)
             THEN RawSub(oldPrices.pricePerGram, newPrices.pricePerGram)
             ELSE RawSub(newPrices.pricePerGram, oldPrices.pricePerGram)
       IN  ~RawGt(RawOfInt(threshold), gramDiff)

\* Mutant: a per-ounce price that differs counts as a change too.
pricesChangedAnyPrice(oldPrices, newPrices) ==
  IF oldPrices.lastUpdated = 0 THEN TRUE
  ELSE LET gramDiff ==
             IF RawGt(oldPrices.pricePerGram, newPrices.pricePerGram)
             THEN RawSub(oldPrices.pricePerGram, newPrices.pricePerGram)
             ELSE RawSub(newPrices.pricePerGram, oldPrices.pricePerGram)
       IN  \/ RawGt(gramDiff, RawOfInt(threshold))
           \/ oldPrices.pricePerOunce # newPrices.pricePerOunce

\* pricesChanged of oracleUpdater.js: never updated, or the per-gram prices
\* differ by more than the threshold.
pricesChanged(oldPrices, newPrices) ==
  IF oldPrices.lastUpdated = 0 THEN TRUE
  ELSE LET gramDiff ==
             IF RawGt(oldPrices.pricePerGram, newPrices.pricePerGram)
             THEN RawSub(oldPrices.pricePerGram, newPrices.pricePerGram)
             ELSE RawSub(newPrices.pricePerGram, oldPrices.pricePerGram)
       IN  RawGt(gramDiff, RawOfInt(threshold))

\* ------------------------------------------------------------------ fees
\* provider.getFeeData(): it fails, or it answers with each of the two fee
\* levels present (in gwei) or absent (0 stands for null).
FeeResponses ==
  {[ok |-> FALSE, maxFeePerGas |-> 0, maxPriorityFeePerGas |-> 0]}
  \cup {[ok |-> TRUE, maxFeePerGas |-> m, maxPriorityFeePerGas |-> p] :
          m \in {0, 100}, p \in {0, 60}}

ChooseFees(feeData) ==
  [maxFeePerGas |->
     IF feeData.maxFeePerGas # 0 THEN feeData.maxFeePerGas ELSE DefaultMaxFeeGwei,
   maxPriorityFeePerGas |->
     IF feeData.maxPriorityFeePerGas # 0 THEN feeData.maxPriorityFeePerGas
     ELSE DefaultPriorityFeeGwei]

NoFees == [maxFeePerGas |-> 0, maxPriorityFeePerGas |-> 0]

\* ----------------------------------------------------------------- state
Callers == {"timer", "manual"}

\* The environment variables config reads, and those validateConfig
\* requires.
Settings ==
  {"GOLD_API_KEY", "RPC_URL", "PRIVATE_KEY", "CONTRACT_ADDRESS", "PORT",
   "API_KEY", "UPDATE_INTERVAL_MINUTES"}

RequiredSettings == {"GOLD_API_KEY", "RPC_URL", "PRIVATE_KEY", "CONTRACT_ADDRESS"}

\* The settings initialize() hands to ethers.
BlockchainSettings == {"RPC_URL", "PRIVATE_KEY", "CONTRACT_ADDRESS"}

Wallet == "wallet"

Addresses == {"wallet", "other"}

VARIABLES
  ledger,         \* GoldOracle: the five prices and lastUpdated
  owner,          \* GoldOracle.owner
  blockTime,      \* block.timestamp of the next block
  mempool,        \* the wallet's transactions sent and not yet mined, by nonce
  receipts,       \* receipts[n]: the receipt of the wallet's n-th transaction
  started,        \* cycles started so far
  pc,             \* pc[c]: what caller c's cycle is awaiting
  retryCount,     \* getGoldPrices' parameter
  attempts,       \* calls of fetchGoldPrice made in this cycle
  delays,         \* retry delays that elapsed in this cycle
  fetchErr,       \* the error caught by getGoldPrices' catch block
  quote,          \* apiData.price of the attempt that succeeded
  newPrices,      \* updatePrices' newPrices
  currentPrices,  \* updatePrices' currentPrices
  needsUpdate,    \* updatePrices' needsUpdate
  fees,           \* updateContractPrices' maxFeePerGas, maxPriorityFeePerGas
  txOf,           \* nonce of the transaction this cycle sent, 0 if none
  sent,           \* transactions this cycle handed to the network
  result,         \* what updatePrices returned
  error,          \* what updatePrices threw
  response,       \* what the caller made of the last cycle
  pcIn,           \* pricesChanged alone: its arguments
  pcOut,          \* pricesChanged alone: its result
  calcIn,         \* calculatePrices alone: apiData.price
  calcOut,        \* calculatePrices alone: its result
  fetchIn,        \* fetchGoldPrice alone: what its axios.get ended in
  fetchOut,       \* fetchGoldPrice alone: what the last call returned or threw
  requests,       \* fetchGoldPrice alone: the requests sent so far
  calls,          \* fetchGoldPrice alone: the calls made so far
  env,            \* process start: the settings present in the environment
  boot,           \* process start: what the loading of index.js has come to
  initialized,    \* process start: what became of the updater's initialize()
  exitPath,       \* process start: what ended the process, if anything did
  lastCall        \* the contract alone: the last external call and its outcome

ledgerVars == <<ledger, owner, blockTime, mempool, receipts>>

fetchVars == <<retryCount, attempts, delays, fetchErr, quote, newPrices>>

submitVars == <<currentPrices, needsUpdate, fees, txOf>>

\* The locals of updatePrices and updateContractPrices.
frame == <<quote, newPrices, currentPrices, needsUpdate, fees, txOf>>

retryVars == <<retryCount, attempts, delays, fetchErr>>

fetcherVars == <<fetchIn, fetchOut, requests, calls>>

startupVars == <<env, boot, initialized, exitPath>>

pureVars == <<pcIn, pcOut, calcIn, calcOut, lastCall, fetcherVars, startupVars>>

vars ==
  <<ledger, owner, blockTime, mempool, receipts, started, pc, retryCount,
    attempts, delays, fetchErr, quote, newPrices, currentPrices, needsUpdate,
    fees, txOf, sent, result, error, response, pcIn, pcOut, calcIn, calcOut,
    fetchIn, fetchOut, requests, calls, env, boot, initialized, exitPath,
    lastCall>>

NoError == [kind |-> "none", attempt |-> 0]

NoResult ==
  [updated |-> FALSE, message |-> "none", tx |-> 0, blockNumber |-> 0,
   gasUsed |-> "none", prices |-> None]

\* No request was answered yet.
NoResponse == [kind |-> "none", price |-> 0]

\* No external call was made to the contract yet.
NoCall ==
  [fn |-> "none", sender |-> "none", prices |-> None, newOwner |-> "none",
   status |-> "none", reason |-> "none", at |-> 0]

NoRest ==
  [pricePerOunce |-> RawZero, pricePerKarat24 |-> RawZero,
   pricePerKarat22 |-> RawZero, pricePerKarat18 |-> RawZero]

NoInput ==
  [base |-> RawZero, oldOff |-> 0, newOff |-> 0, lastUpdated |-> 0,
   oldRest |-> NoRest, newRest |-> NoRest]

\* ---------------------------------------------------------- the contract
\* The state of GoldOracle right after its constructor ran.
Deployed ==
  [pricePerGram |-> RawZero, pricePerOunce |-> RawZero,
   pricePerKarat24 |-> RawZero, pricePerKarat22 |-> RawZero,
   pricePerKarat18 |-> RawZero, lastUpdated |-> 0]

\* Mutant: updatePrices also requires that an update was made before.
UpdateAcceptedOnceUpdated(sender, p) ==
  /\ sender = owner
  /\ ledger.lastUpdated # 0
  /\ RawPositive(p.pricePerGram)
  /\ RawPositive(p.pricePerOunce)
  /\ RawPositive(p.pricePerKarat24)
  /\ RawPositive(p.pricePerKarat22)
  /\ RawPositive(p.pricePerKarat18)

\* GoldOracle.updatePrices passes onlyOwner and its five requires.
UpdateAccepted(sender, p) ==
  /\ sender = owner
  /\ RawPositive(p.pricePerGram)
  /\ RawPositive(p.pricePerOunce)
  /\ RawPositive(p.pricePerKarat24)
  /\ RawPositive(p.pricePerKarat22)
  /\ RawPositive(p.pricePerKarat18)

\* Mutant: the assignment to pricePerKarat18 is missing.
StoredWithout18K(p, timestamp) ==
  [pricePerGram |-> p.pricePerGram, pricePerOunce |-> p.pricePerOunce,
   pricePerKarat24 |-> p.pricePerKarat24, pricePerKarat22 |-> p.pricePerKarat22,
   pricePerKarat18 |-> ledger.pricePerKarat18, lastUpdated |-> timestamp]

\* The storage GoldOracle.updatePrices writes.
Stored(p, timestamp) ==
  [pricePerGram |-> p.pricePerGram, pricePerOunce |-> p.pricePerOunce,
   pricePerKarat24 |-> p.pricePerKarat24, pricePerKarat22 |-> p.pricePerKarat22,
   pricePerKarat18 |-> p.pricePerKarat18, lastUpdated |-> timestamp]

\* ethers cannot encode a negative number as a uint256.
Encodable(p) ==
  /\ ~RawNegative(p.pricePerGram)
  /\ ~RawNegative(p.pricePerOunce)
  /\ ~RawNegative(p.pricePerKarat24)
  /\ ~RawNegative(p.pricePerKarat22)
  /\ ~RawNegative(p.pricePerKarat18)

\* GoldOracle.transferOwnership by the current owner.
TransferOwnership ==
  \E newOwner \in Addresses :
    /\ newOwner # owner
    /\ owner' = newOwner
    /\ UNCHANGED <<ledger, blockTime, mempool, receipts, started, pc, response>>
    /\ UNCHANGED <<retryVars, frame, result, error, sent, pureVars>>

\* The service and the contract right after start-up and deployment.
Idle ==
  /\ ledger = Deployed
  /\ owner = Wallet
  /\ blockTime = 1
  /\ mempool = <<>>
  /\ receipts = <<>>
  /\ started = 0
  /\ pc = [c \in Callers |-> "idle"]
  /\ retryCount = [c \in Callers |-> 0]
  /\ attempts = [c \in Callers |-> 0]
  /\ delays = [c \in Callers |-> 0]
  /\ fetchErr = [c \in Callers |-> NoError]
  /\ quote = [c \in Callers |-> None]
  /\ newPrices = [c \in Callers |-> None]
  /\ currentPrices = [c \in Callers |-> None]
  /\ needsUpdate = [c \in Callers |-> FALSE]
  /\ fees = [c \in Callers |-> NoFees]
  /\ txOf = [c \in Callers |-> 0]
  /\ sent = [c \in Callers |-> 0]
  /\ result = [c \in Callers |-> NoResult]
  /\ error = [c \in Callers |-> NoError]
  /\ response = [c \in Callers |-> "none"]
  /\ lastCall = NoCall
  /\ fetchIn = NoResponse
  /\ fetchOut = None
  /\ requests = 0
  /\ calls = 0
  /\ boot = "serving"
  /\ initialized = "bound"
  /\ exitPath = "none"

Init ==
  /\ Idle
  /\ env = Settings
  /\ pcIn = NoInput
  /\ pcOut = None
  /\ calcIn = 0
  /\ calcOut = None

\* --------------------------------------------------------- updatePrices
\* Mutant: the catch block returns the failure as a result value.
UpdatePricesCatchReturns(c, err) ==
  /\ pc' = [pc EXCEPT ![c] = "returned"]
  /\ result' = [result EXCEPT ![c] = [NoResult EXCEPT !.message = err.kind]]
  /\ quote' = [quote EXCEPT ![c] = None]
  /\ newPrices' = [newPrices EXCEPT ![c] = None]
  /\ currentPrices' = [currentPrices EXCEPT ![c] = None]
  /\ needsUpdate' = [needsUpdate EXCEPT ![c] = FALSE]
  /\ fees' = [fees EXCEPT ![c] = NoFees]
  /\ txOf' = [txOf EXCEPT ![c] = 0]
  /\ UNCHANGED error

\* updatePrices' catch block: log and rethrow to the caller.  The locals of
\* the unwound frames are gone.
UpdatePricesCatch(c, err) ==
  /\ pc' = [pc EXCEPT ![c] = "thrown"]
  /\ error' = [error EXCEPT ![c] = err]
  /\ quote' = [quote EXCEPT ![c] = None]
  /\ newPrices' = [newPrices EXCEPT ![c] = None]
  /\ currentPrices' = [currentPrices EXCEPT ![c] = None]
  /\ needsUpdate' = [needsUpdate EXCEPT ![c] = FALSE]
  /\ fees' = [fees EXCEPT ![c] = NoFees]
  /\ txOf' = [txOf EXCEPT ![c] = 0]
  /\ UNCHANGED result

\* updatePrices returns res to the caller.
UpdatePricesReturn(c, res) ==
  /\ pc' = [pc EXCEPT ![c] = "returned"]
  /\ result' = [result EXCEPT ![c] = res]
  /\ currentPrices' = [currentPrices EXCEPT ![c] = None]
  /\ fees' = [fees EXCEPT ![c] = NoFees]
  /\ txOf' = [txOf EXCEPT ![c] = 0]
  /\ UNCHANGED <<error, quote, newPrices>>

\* The Node process lives: no handler let a failure through to
\* 'uncaughtException', whose listener calls process.exit(1).
ProcessRunning == \A c \in Callers : response[c] # "exited"

\* Mutant: a cycle starts only while no other cycle runs.
StartSerialized(c) ==
  /\ ProcessRunning
  /\ \A d \in Callers : pc[d] = "idle"
  /\ started < MaxCycles
  /\ started' = started + 1
  /\ pc' = [pc EXCEPT ![c] = "fetch"]
  /\ retryCount' = [retryCount EXCEPT ![c] = 0]
  /\ response' = [response EXCEPT ![c] = "none"]
  /\ UNCHANGED <<attempts, delays, fetchErr, frame>>
  /\ UNCHANGED <<ledgerVars, result, error, sent, pureVars>>

\* A trigger fires: the cron job calls scheduledUpdate, or a POST
\* /update-prices passes authenticateApiKey; either calls updatePrices,
\* which calls getGoldPrices(0), which awaits axios.get.
StartCycle(c, limit) ==
  /\ ProcessRunning
  /\ pc[c] = "idle"
  /\ started < limit
  /\ started' = started + 1
  /\ pc' = [pc EXCEPT ![c] = "fetch"]
  /\ retryCount' = [retryCount EXCEPT ![c] = 0]
  /\ response' = [response EXCEPT ![c] = "none"]
  /\ UNCHANGED <<attempts, delays, fetchErr, frame>>
  /\ UNCHANGED <<ledgerVars, result, error, sent, pureVars>>

\* A trigger of either caller, within the bound on cycles.
Start(c) == StartCycle(c, MaxCycles)

\* getGoldPrices' try block after fetchGoldPrice returned apiData.
GetGoldPricesTry(c, price) ==
  /\ quote' = [quote EXCEPT ![c] = Some(price)]
  /\ newPrices' = [newPrices EXCEPT ![c] = Some(calculatePrices(price))]
  /\ fetchErr' = [fetchErr EXCEPT ![c] = NoError]
  /\ pc' = [pc EXCEPT ![c] = "read"]
  /\ UNCHANGED <<retryCount, delays, submitVars, result, error>>

\* Mutant: the catch block recurses at once, without awaiting the delay.
GetGoldPricesCatchNoDelay(c, err) ==
  /\ fetchErr' = [fetchErr EXCEPT ![c] = err]
  /\ UNCHANGED delays
  /\ IF ShouldRetry(retryCount[c])
     THEN /\ pc' = [pc EXCEPT ![c] = "fetch"]
          /\ retryCount' = [retryCount EXCEPT ![c] = @ + 1]
          /\ UNCHANGED <<frame, result, error>>
     ELSE /\ UpdatePricesCatch(c, err)
          /\ UNCHANGED retryCount

\* getGoldPrices' catch block: await the delay and recurse, or rethrow.
GetGoldPricesCatch(c, err) ==
  /\ fetchErr' = [fetchErr EXCEPT ![c] = err]
  /\ UNCHANGED <<retryCount, delays>>
  /\ IF ShouldRetry(retryCount[c])
     THEN /\ pc' = [pc EXCEPT ![c] = "delay"]
          /\ UNCHANGED <<frame, result, error>>
     ELSE UpdatePricesCatch(c, err)

\* axios.get settles: fetchGoldPrice returns or throws inside getGoldPrices.
FetchAttempt(c) ==
  /\ pc[c] = "fetch"
  /\ attempts' = [attempts EXCEPT ![c] = @ + 1]
  /\ \E r \in Responses :
       LET out == fetchGoldPrice(r)
       IN  IF out.ok
           THEN GetGoldPricesTry(c, out.price)
           ELSE GetGoldPricesCatch(c, [kind |-> out.error, attempt |-> attempts[c] + 1])
  /\ UNCHANGED <<ledgerVars, started, response, sent, pureVars>>

\* Mutant: the recursive call starts over, getGoldPrices(0).
RetryDelayStartsOver(c) ==
  /\ pc[c] = "delay"
  /\ pc' = [pc EXCEPT ![c] = "fetch"]
  /\ retryCount' = [retryCount EXCEPT ![c] = 0]
  /\ attempts' = [attempts EXCEPT ![c] = 0]
  /\ delays' = [delays EXCEPT ![c] = 0]
  /\ fetchErr' = [fetchErr EXCEPT ![c] = NoError]
  /\ UNCHANGED frame
  /\ UNCHANGED <<ledgerVars, started, result, error, response, sent, pureVars>>

\* Mutant: the recursive call passes retryCount on unchanged.
RetryDelaySameCount(c) ==
  /\ pc[c] = "delay"
  /\ pc' = [pc EXCEPT ![c] = "fetch"]
  /\ delays' = [delays EXCEPT ![c] = @ + 1]
  /\ fetchErr' = [fetchErr EXCEPT ![c] = NoError]
  /\ UNCHANGED <<retryCount, attempts, frame>>
  /\ UNCHANGED <<ledgerVars, started, result, error, response, sent, pureVars>>

\* The setTimeout of retryDelayMs fires: getGoldPrices(retryCount + 1).
RetryDelay(c) ==
  /\ pc[c] = "delay"
  /\ pc' = [pc EXCEPT ![c] = "fetch"]
  /\ retryCount' = [retryCount EXCEPT ![c] = @ + 1]
  /\ delays' = [delays EXCEPT ![c] = @ + 1]
  /\ fetchErr' = [fetchErr EXCEPT ![c] = NoError]
  /\ UNCHANGED <<attempts, frame>>
  /\ UNCHANGED <<ledgerVars, started, result, error, response, sent, pureVars>>

\* Mutant: a failed read of the ledger is taken for a ledger never updated.
ReadLedgerFailureSubmits(c) ==
  /\ pc[c] = "read"
  /\ \E ok \in BOOLEAN :
       IF ok
       THEN LET needs == pricesChanged(ledger, newPrices[c][1])
            IN  IF needs
                THEN /\ pc' = [pc EXCEPT ![c] = "estimate"]
                     /\ currentPrices' = [currentPrices EXCEPT ![c] = Some(ledger)]
                     /\ needsUpdate' = [needsUpdate EXCEPT ![c] = TRUE]
                     /\ UNCHANGED <<quote, newPrices, fees, txOf, result, error>>
                ELSE /\ UpdatePricesReturn(c,
                          [NoResult EXCEPT !.message = "No significant price change"])
                     /\ UNCHANGED needsUpdate
       ELSE /\ pc' = [pc EXCEPT ![c] = "estimate"]
            /\ needsUpdate' = [needsUpdate EXCEPT ![c] = TRUE]
            /\ UNCHANGED <<quote, newPrices, currentPrices, fees, txOf, result, error>>
  /\ retryCount' = [retryCount EXCEPT ![c] = 0]
  /\ attempts' = [attempts EXCEPT ![c] = 0]
  /\ delays' = [delays EXCEPT ![c] = 0]
  /\ UNCHANGED fetchErr
  /\ UNCHANGED <<ledgerVars, started, response, sent, pureVars>>

\* Mutant: the decision is not looked at; every cycle goes on to submit.
ReadLedgerAlwaysSubmits(c) ==
  /\ pc[c] = "read"
  /\ \E ok \in BOOLEAN :
       IF ok
       THEN /\ pc' = [pc EXCEPT ![c] = "estimate"]
            /\ currentPrices' = [currentPrices EXCEPT ![c] = Some(ledger)]
            /\ needsUpdate' = [needsUpdate EXCEPT ![c] = TRUE]
            /\ UNCHANGED <<quote, newPrices, fees, txOf, result, error>>
       ELSE UpdatePricesCatch(c, [kind |-> "read", attempt |-> 0])
  /\ retryCount' = [retryCount EXCEPT ![c] = 0]
  /\ attempts' = [attempts EXCEPT ![c] = 0]
  /\ delays' = [delays EXCEPT ![c] = 0]
  /\ UNCHANGED fetchErr
  /\ UNCHANGED <<ledgerVars, started, response, sent, pureVars>>

\* contract.getAllPrices() settles; on success pricesChanged decides at once.
\* getGoldPrices has returned by now: its frames (retryCount) are gone, and
\* the counts kept of its attempts and delays are dropped with them.
ReadLedger(c) ==
  /\ pc[c] = "read"
  /\ \E ok \in BOOLEAN :
       IF ok
       THEN LET needs == pricesChanged(ledger, newPrices[c][1])
            IN  IF needs
                THEN /\ pc' = [pc EXCEPT ![c] = "estimate"]
                     /\ currentPrices' = [currentPrices EXCEPT ![c] = Some(ledger)]
                     /\ needsUpdate' = [needsUpdate EXCEPT ![c] = TRUE]
                     /\ UNCHANGED <<quote, newPrices, fees, txOf, result, error>>
                ELSE /\ UpdatePricesReturn(c,
                          [NoResult EXCEPT !.message = "No significant price change"])
                     /\ UNCHANGED needsUpdate
       ELSE UpdatePricesCatch(c, [kind |-> "read", attempt |-> 0])
  /\ retryCount' = [retryCount EXCEPT ![c] = 0]
  /\ attempts' = [attempts EXCEPT ![c] = 0]
  /\ delays' = [delays EXCEPT ![c] = 0]
  /\ UNCHANGED fetchErr
  /\ UNCHANGED <<ledgerVars, started, response, sent, pureVars>>

\* Mutant: a failed estimate is logged and the submission goes on.
EstimateGasFailureIgnored(c) ==
  /\ pc[c] = "estimate"
  /\ pc' = [pc EXCEPT ![c] = "fee"]
  /\ UNCHANGED <<frame, result, error>>
  /\ UNCHANGED <<ledgerVars, started, retryVars, response, sent, pureVars>>

\* contract.updatePrices.estimateGas settles: it throws when the arguments
\* cannot be encoded, when the call would revert, or when the node fails.
EstimateGas(c) ==
  /\ pc[c] = "estimate"
  /\ \E ok \in BOOLEAN :
       IF /\ ok
          /\ Encodable(newPrices[c][1])
          /\ UpdateAccepted(Wallet, newPrices[c][1])
       THEN /\ pc' = [pc EXCEPT ![c] = "fee"]
            /\ UNCHANGED <<frame, result, error>>
       ELSE UpdatePricesCatch(c, [kind |-> "estimate", attempt |-> 0])
  /\ UNCHANGED <<ledgerVars, started, retryVars, response, sent, pureVars>>

\* provider.getFeeData() settles.
GetFeeData(c) ==
  /\ pc[c] = "fee"
  /\ \E feeData \in FeeResponses :
       IF feeData.ok
       THEN /\ fees' = [fees EXCEPT ![c] = ChooseFees(feeData)]
            /\ pc' = [pc EXCEPT ![c] = "send"]
            /\ UNCHANGED <<quote, newPrices, currentPrices, needsUpdate, txOf>>
            /\ UNCHANGED <<result, error>>
       ELSE UpdatePricesCatch(c, [kind |-> "fee", attempt |-> 0])
  /\ UNCHANGED <<ledgerVars, started, retryVars, response, sent, pureVars>>

\* contract.updatePrices(..., {maxFeePerGas, maxPriorityFeePerGas}) settles:
\* the transaction is in the mempool, or the send failed.
SendTransaction(c) ==
  /\ pc[c] = "send"
  /\ \E ok \in BOOLEAN :
       IF ok
       THEN /\ mempool' = Append(mempool,
                 [by |-> c, prices |-> newPrices[c][1], fees |-> fees[c]])
            /\ txOf' = [txOf EXCEPT ![c] = Len(receipts) + Len(mempool) + 1]
            /\ sent' = [sent EXCEPT ![c] = @ + 1]
            /\ pc' = [pc EXCEPT ![c] = "wait"]
            /\ UNCHANGED <<quote, newPrices, currentPrices, needsUpdate, fees>>
            /\ UNCHANGED <<result, error>>
       ELSE /\ UpdatePricesCatch(c, [kind |-> "send", attempt |-> 0])
            /\ UNCHANGED <<mempool, sent>>
  /\ UNCHANGED <<ledger, owner, blockTime, receipts>>
  /\ UNCHANGED <<started, retryVars, response, pureVars>>

\* The receipt of the transaction with the given nonce, which stands for its
\* hash.  gasUsed is read from the receipts of successful updates only.
Receipt(nonce, status) ==
  [hash |-> nonce, status |-> status, blockNumber |-> blockTime,
   gasUsed |-> UpdateGasUsed]

\* A block includes the wallet's next transaction: GoldOracle.updatePrices
\* runs with msg.sender = the wallet.
Mine ==
  /\ mempool # <<>>
  /\ LET tx == Head(mempool)
         nonce == Len(receipts) + 1
     IN  IF UpdateAccepted(Wallet, tx.prices)
         THEN /\ ledger' = Stored(tx.prices, blockTime)
              /\ receipts' = Append(receipts, Receipt(nonce, "ok"))
         ELSE /\ UNCHANGED ledger
              /\ receipts' = Append(receipts, Receipt(nonce, "reverted"))
  /\ mempool' = Tail(mempool)
  /\ blockTime' = blockTime + 1
  /\ UNCHANGED <<owner, started, pc, retryVars, frame, result, error, response, sent, pureVars>>

\* Mutant: the cycle returns once the transaction is sent, mined or not.
ConfirmUnmined(c) ==
  /\ pc[c] = "wait"
  /\ UpdatePricesReturn(c,
       [updated |-> TRUE, message |-> "none", tx |-> txOf[c],
        blockNumber |-> blockTime, gasUsed |-> ToString(UpdateGasUsed),
        prices |-> newPrices[c]])
  /\ UNCHANGED needsUpdate
  /\ UNCHANGED <<ledgerVars, started, retryVars, response, sent, pureVars>>

\* Mutant: a transaction that reverted is sent again.
ConfirmResends(c) ==
  /\ pc[c] = "wait"
  /\ txOf[c] <= Len(receipts)
  /\ LET receipt == receipts[txOf[c]]
     IN  IF receipt.status = "ok"
         THEN /\ UpdatePricesReturn(c,
                   [updated |-> TRUE, message |-> "none", tx |-> receipt.hash,
                    blockNumber |-> receipt.blockNumber,
                    gasUsed |-> ToString(receipt.gasUsed),
                    prices |-> newPrices[c]])
              /\ UNCHANGED needsUpdate
         ELSE /\ pc' = [pc EXCEPT ![c] = "send"]
              /\ UNCHANGED <<frame, result, error>>
  /\ UNCHANGED <<ledgerVars, started, retryVars, response, sent, pureVars>>

\* tx.wait() settles with the receipt of this cycle's transaction.
Confirm(c) ==
  /\ pc[c] = "wait"
  /\ txOf[c] <= Len(receipts)
  /\ LET receipt == receipts[txOf[c]]
     IN  IF receipt.status = "ok"
         THEN /\ UpdatePricesReturn(c,
                   [updated |-> TRUE, message |-> "none", tx |-> receipt.hash,
                    blockNumber |-> receipt.blockNumber,
                    gasUsed |-> ToString(receipt.gasUsed),
                    prices |-> newPrices[c]])
              /\ UNCHANGED needsUpdate
         ELSE UpdatePricesCatch(c, [kind |-> "reverted", attempt |-> 0])
  /\ UNCHANGED <<ledgerVars, started, retryVars, response, sent, pureVars>>

\* tx.wait() fails because the node does.
WaitFails(c) ==
  /\ pc[c] = "wait"
  /\ UpdatePricesCatch(c, [kind |-> "wait", attempt |-> 0])
  /\ UNCHANGED <<ledgerVars, started, retryVars, response, sent, pureVars>>

\* Mutant: scheduledUpdate without its try/catch, its failure taking the
\* process down.
CallerResponseTimerUncaught(c, outcome) ==
  IF c = "manual"
  THEN (IF outcome = "returned" THEN "200" ELSE "500")
  ELSE (IF outcome = "returned" THEN "logged result" ELSE "exited")

\* What the caller answers: scheduledUpdate logs the outcome, the POST
\* /update-prices handler answers 200 or 500.
CallerResponse(c, outcome) ==
  IF c = "manual"
  THEN (IF outcome = "returned" THEN "200" ELSE "500")
  ELSE (IF outcome = "returned" THEN "logged result" ELSE "logged error")

\* The caller's handling of the cycle's outcome.
Finish(c) ==
  /\ pc[c] \in {"returned", "thrown"}
  /\ response' = [response EXCEPT ![c] = CallerResponse(c, pc[c])]
  /\ pc' = [pc EXCEPT ![c] = "idle"]
  /\ retryCount' = [retryCount EXCEPT ![c] = 0]
  /\ attempts' = [attempts EXCEPT ![c] = 0]
  /\ delays' = [delays EXCEPT ![c] = 0]
  /\ fetchErr' = [fetchErr EXCEPT ![c] = NoError]
  /\ quote' = [quote EXCEPT ![c] = None]
  /\ newPrices' = [newPrices EXCEPT ![c] = None]
  /\ currentPrices' = [currentPrices EXCEPT ![c] = None]
  /\ needsUpdate' = [needsUpdate EXCEPT ![c] = FALSE]
  /\ fees' = [fees EXCEPT ![c] = NoFees]
  /\ txOf' = [txOf EXCEPT ![c] = 0]
  /\ result' = [result EXCEPT ![c] = NoResult]
  /\ error' = [error EXCEPT ![c] = NoError]
  /\ sent' = [sent EXCEPT ![c] = 0]
  /\ UNCHANGED <<ledgerVars, started, pureVars>>

Next ==
  \/ \E c \in Callers : Start(c)
  \/ \E c \in Callers : FetchAttempt(c)
  \/ \E c \in Callers : RetryDelay(c)
  \/ \E c \in Callers : ReadLedger(c)
  \/ \E c \in Callers : EstimateGas(c)
  \/ \E c \in Callers : GetFeeData(c)
  \/ \E c \in Callers : SendTransaction(c)
  \/ \E c \in Callers : Confirm(c)
  \/ \E c \in Callers : WaitFails(c)
  \/ \E c \in Callers : Finish(c)
  \/ Mine
  \/ TransferOwnership

Spec == Init /\ [][Next]_vars

\* ------------------------------- cycles one at a time, awaits settling
\* The next step of the cycle of caller c: the call it awaits settles, with
\* a value or with an error, or its retry timer fires.
CycleStep(c) ==
  \/ FetchAttempt(c)
  \/ RetryDelay(c)
  \/ ReadLedger(c)
  \/ EstimateGas(c)
  \/ GetFeeData(c)
  \/ SendTransaction(c)
  \/ Confirm(c)
  \/ WaitFails(c)

\* At most one cycle is running.
Serial == Cardinality({c \in Callers : pc[c] # "idle"}) <= 1

\* A trigger fires only while no cycle runs, and the service's wallet is the
\* only account that calls the contract.
NextSerial ==
  \/ \E c \in Callers : Start(c) /\ Serial'
  \/ \E c \in Callers : FetchAttempt(c)
  \/ \E c \in Callers : RetryDelay(c)
  \/ \E c \in Callers : ReadLedger(c)
  \/ \E c \in Callers : EstimateGas(c)
  \/ \E c \in Callers : GetFeeData(c)
  \/ \E c \in Callers : SendTransaction(c)
  \/ \E c \in Callers : Confirm(c)
  \/ \E c \in Callers : WaitFails(c)
  \/ \E c \in Callers : Finish(c)
  \/ Mine

\* Every call a cycle awaits eventually returns or fails, and timers fire.
SpecSerial ==
  Init /\ [][NextSerial]_vars /\ \A c \in Callers : WF_vars(CycleStep(c))

\* ------------------------------------------------ the timer alone
\* Ticks of the cron job, each after the cycle of the last one ended and
\* was logged; nobody posts to /update-prices or calls the contract.
MaxTicks == 3

Tick == StartCycle("timer", MaxTicks)

NextTicks ==
  \/ Tick
  \/ FetchAttempt("timer")
  \/ RetryDelay("timer")
  \/ ReadLedger("timer")
  \/ EstimateGas("timer")
  \/ GetFeeData("timer")
  \/ SendTransaction("timer")
  \/ Confirm("timer")
  \/ WaitFails("timer")
  \/ Finish("timer")
  \/ Mine

SpecTicks == Init /\ [][NextTicks]_vars

\* ------------------------------------------- cycles on a working network
\* The service's wallet owns the contract, the quote is positive, and no
\* call of the cycle fails for good: a fetch may fail while retries are
\* left, and every other call to the node or to the chain answers.
Benign ==
  /\ owner = Wallet
  /\ \A c \in Callers :
       /\ pc[c] # "thrown"
       /\ quote[c] # None => quote[c][1] > 0

NextBenign ==
  \/ \E c \in Callers : Start(c) /\ Benign'
  \/ \E c \in Callers : FetchAttempt(c) /\ Benign'
  \/ \E c \in Callers : RetryDelay(c) /\ Benign'
  \/ \E c \in Callers : ReadLedger(c) /\ Benign'
  \/ \E c \in Callers : EstimateGas(c) /\ Benign'
  \/ \E c \in Callers : GetFeeData(c) /\ Benign'
  \/ \E c \in Callers : SendTransaction(c) /\ Benign'
  \/ \E c \in Callers : Confirm(c) /\ Benign'
  \/ \E c \in Callers : Finish(c) /\ Benign'
  \/ Mine /\ Benign'

\* Every awaited call settles, and every transaction sent is mined.
SpecBenign == Init /\ [][NextBenign]_vars /\ WF_vars(NextBenign)

\* --------------------------------------------------- the contract alone
\* address(0).
ZeroAddress == "zero"

\* Block timestamps, in seconds from the deployment's: ages of 100, 3500,
\* 3600 and 3601 seconds lie between them.
Instants == {1, 101, 3601, 3602, 3702}

\* SAMPLE_PRICES of the test suite: 65.50, 2037.50, 65.50, 60.04, 49.13.
SamplePrices ==
  [pricePerGram |-> Raw(65, 50000000), pricePerOunce |-> Raw(2037, 50000000),
   pricePerKarat24 |-> Raw(65, 50000000), pricePerKarat22 |-> Raw(60, 4000000),
   pricePerKarat18 |-> Raw(49, 13000000)]

\* Arguments of updatePrices: the sample, the prices of another quote, the
\* sample with each one of its prices at zero, and all zero.
PriceArguments ==
  {SamplePrices, calculatePrices(20375100),
   [SamplePrices EXCEPT !.pricePerGram = RawZero],
   [SamplePrices EXCEPT !.pricePerOunce = RawZero],
   [SamplePrices EXCEPT !.pricePerKarat24 = RawZero],
   [SamplePrices EXCEPT !.pricePerKarat22 = RawZero],
   [SamplePrices EXCEPT !.pricePerKarat18 = RawZero],
   [pricePerGram |-> RawZero, pricePerOunce |-> RawZero,
    pricePerKarat24 |-> RawZero, pricePerKarat22 |-> RawZero,
    pricePerKarat18 |-> RawZero]}

\* Mutant: the 18K price is not checked.
UpdateRevertReasonNo18K(sender, p) ==
  IF sender # owner THEN "GoldOracle: caller is not the owner"
  ELSE IF ~RawPositive(p.pricePerGram) THEN "GoldOracle: invalid gram price"
  ELSE IF ~RawPositive(p.pricePerOunce) THEN "GoldOracle: invalid ounce price"
  ELSE IF ~RawPositive(p.pricePerKarat24) THEN "GoldOracle: invalid 24K price"
  ELSE IF ~RawPositive(p.pricePerKarat22) THEN "GoldOracle: invalid 22K price"
  ELSE "none"

\* The require of onlyOwner or of updatePrices that fails first, if any.
UpdateRevertReason(sender, p) ==
  IF sender # owner THEN "GoldOracle: caller is not the owner"
  ELSE IF ~RawPositive(p.pricePerGram) THEN "GoldOracle: invalid gram price"
  ELSE IF ~RawPositive(p.pricePerOunce) THEN "GoldOracle: invalid ounce price"
  ELSE IF ~RawPositive(p.pricePerKarat24) THEN "GoldOracle: invalid 24K price"
  ELSE IF ~RawPositive(p.pricePerKarat22) THEN "GoldOracle: invalid 22K price"
  ELSE IF ~RawPositive(p.pricePerKarat18) THEN "GoldOracle: invalid 18K price"
  ELSE "none"

\* Mutant: transferOwnership without the onlyOwner modifier.
TransferRevertReasonAnyCaller(sender, newOwner) ==
  IF newOwner = ZeroAddress
  THEN "GoldOracle: new owner is the zero address"
  ELSE "none"

\* The require of onlyOwner or of transferOwnership that fails first, if any.
TransferRevertReason(sender, newOwner) ==
  IF sender # owner THEN "GoldOracle: caller is not the owner"
  ELSE IF newOwner = ZeroAddress
       THEN "GoldOracle: new owner is the zero address"
  ELSE "none"

getGoldPricePerGram == ledger.pricePerGram

getGoldPricePerOunce == ledger.pricePerOunce

\* Mutant: the 22K branch returns the 24K price.
getGoldPriceByKarat22As24(karat) ==
  IF karat = 24 THEN [ok |-> TRUE, value |-> ledger.pricePerKarat24]
  ELSE IF karat = 22 THEN [ok |-> TRUE, value |-> ledger.pricePerKarat24]
  ELSE IF karat = 18 THEN [ok |-> TRUE, value |-> ledger.pricePerKarat18]
  ELSE [ok |-> FALSE, value |-> RawZero]

\* ok is FALSE when the call reverts with 'invalid karat'.
getGoldPriceByKarat(karat) ==
  IF karat = 24 THEN [ok |-> TRUE, value |-> ledger.pricePerKarat24]
  ELSE IF karat = 22 THEN [ok |-> TRUE, value |-> ledger.pricePerKarat22]
  ELSE IF karat = 18 THEN [ok |-> TRUE, value |-> ledger.pricePerKarat18]
  ELSE [ok |-> FALSE, value |-> RawZero]

getAllPrices ==
  [pricePerGram |-> ledger.pricePerGram, pricePerOunce |-> ledger.pricePerOunce,
   pricePerKarat24 |-> ledger.pricePerKarat24,
   pricePerKarat22 |-> ledger.pricePerKarat22,
   pricePerKarat18 |-> ledger.pricePerKarat18,
   lastUpdated |-> ledger.lastUpdated]

getLastUpdated == ledger.lastUpdated

\* Mutant: data exactly STALENESS_THRESHOLD old is stale.
isStaleInclusive ==
  IF ledger.lastUpdated = 0 THEN TRUE
  ELSE blockTime - ledger.lastUpdated >= STALENESS_THRESHOLD

\* GoldOracle.isStale, called at the latest block.
isStale ==
  IF ledger.lastUpdated = 0 THEN TRUE
  ELSE blockTime - ledger.lastUpdated > STALENESS_THRESHOLD

\* What the calls to the contract leave alone: the service.
serviceVars ==
  <<mempool, receipts, started, pc, retryVars, frame, result, error, response,
    sent, pcIn, pcOut, calcIn, calcOut, fetcherVars, startupVars>>

\* Mutant: a reverted updatePrices still stamps lastUpdated.
ContractUpdatePricesStampsOnRevert(sender, p) ==
  LET reason == UpdateRevertReason(sender, p)
  IN  /\ IF reason = "none"
         THEN ledger' = Stored(p, blockTime)
         ELSE ledger' = [ledger EXCEPT !.lastUpdated = blockTime]
      /\ lastCall' =
           [fn |-> "updatePrices", sender |-> sender, prices |-> Some(p),
            newOwner |-> "none",
            status |-> IF reason = "none" THEN "ok" ELSE "reverted",
            reason |-> reason, at |-> blockTime]
      /\ UNCHANGED <<owner, blockTime, serviceVars>>

\* Any account calls updatePrices with any arguments, in a block stamped
\* blockTime.
ContractUpdatePrices(sender, p) ==
  LET reason == UpdateRevertReason(sender, p)
  IN  /\ IF reason = "none"
         THEN ledger' = Stored(p, blockTime)
         ELSE UNCHANGED ledger
      /\ lastCall' =
           [fn |-> "updatePrices", sender |-> sender, prices |-> Some(p),
            newOwner |-> "none",
            status |-> IF reason = "none" THEN "ok" ELSE "reverted",
            reason |-> reason, at |-> blockTime]
      /\ UNCHANGED <<owner, blockTime, serviceVars>>

\* Any account calls transferOwnership with any address.
ContractTransferOwnership(sender, newOwner) ==
  LET reason == TransferRevertReason(sender, newOwner)
  IN  /\ IF reason = "none"
         THEN owner' = newOwner
         ELSE UNCHANGED owner
      /\ lastCall' =
           [fn |-> "transferOwnership", sender |-> sender, prices |-> None,
            newOwner |-> newOwner,
            status |-> IF reason = "none" THEN "ok" ELSE "reverted",
            reason |-> reason, at |-> blockTime]
      /\ UNCHANGED <<ledger, blockTime, serviceVars>>

\* Time passes: the next block carries a later timestamp.
AdvanceTime ==
  /\ \E t \in Instants : t > blockTime /\ blockTime' = t
  /\ UNCHANGED <<ledger, owner, lastCall, serviceVars>>

NextContract ==
  \/ \E sender \in Addresses, p \in PriceArguments :
       ContractUpdatePrices(sender, p)
  \/ \E sender \in Addresses, newOwner \in Addresses \cup {ZeroAddress} :
       ContractTransferOwnership(sender, newOwner)
  \/ AdvanceTime

SpecContract == Init /\ [][NextContract]_vars

\* ------------------------------------------- the contract and its views
\* The external view functions of GoldOracle.
Views ==
  {"getGoldPricePerGram", "getGoldPricePerOunce", "getGoldPriceByKarat",
   "getAllPrices", "getLastUpdated", "isStale"}

\* Arguments of getGoldPriceByKarat: the three karats and one it rejects.
Karats == {18, 20, 22, 24}

\* Mutant: isStale without 'view', stamping the time of the check.
ContractViewStampsStaleCheck(sender, fn, karat) ==
  LET ok == fn = "getGoldPriceByKarat" => getGoldPriceByKarat(karat).ok
  IN  /\ lastCall' =
           [fn |-> fn, sender |-> sender, prices |-> None, newOwner |-> "none",
            status |-> IF ok THEN "ok" ELSE "reverted",
            reason |-> IF ok THEN "none" ELSE "GoldOracle: invalid karat",
            at |-> blockTime]
      /\ IF fn = "isStale"
         THEN ledger' = [ledger EXCEPT !.lastUpdated = blockTime]
         ELSE UNCHANGED ledger
      /\ UNCHANGED <<owner, blockTime, serviceVars>>

\* Any account calls a view function: an eth_call, which is what the
\* service's getCurrentContractPrices and isStale make.  A view cannot
\* write storage.
ContractView(sender, fn, karat) ==
  LET ok == fn = "getGoldPriceByKarat" => getGoldPriceByKarat(karat).ok
  IN  /\ lastCall' =
           [fn |-> fn, sender |-> sender, prices |-> None, newOwner |-> "none",
            status |-> IF ok THEN "ok" ELSE "reverted",
            reason |-> IF ok THEN "none" ELSE "GoldOracle: invalid karat",
            at |-> blockTime]
      /\ UNCHANGED <<ledger, owner, blockTime, serviceVars>>

NextViews ==
  \/ \E sender \in Addresses, p \in PriceArguments :
       ContractUpdatePrices(sender, p)
  \/ \E sender \in Addresses, newOwner \in Addresses \cup {ZeroAddress} :
       ContractTransferOwnership(sender, newOwner)
  \/ \E sender \in Addresses, fn \in Views, karat \in Karats :
       ContractView(sender, fn, karat)
  \/ AdvanceTime

SpecViews == Init /\ [][NextViews]_vars

\* ------------------------------------------------- pricesChanged alone
\* Stored per-gram prices: 6550000000, one just below a carry into the
\* dollars, and 0.
PcBases == {Raw(65, 50000000), Raw(65, 99995000), RawZero}

\* Raw units added to the base for the stored and for the candidate price.
PcOffsets == {0, 500, 9999, 10000, 10001, 10100000}

\* Values of the four prices pricesChanged does not read: all zero, the
\* sample of the test suite (2037.50, 65.50, 60.04, 49.13), and another.
PcRests ==
  {NoRest,
   [pricePerOunce |-> Raw(2037, 50000000), pricePerKarat24 |-> Raw(65, 50000000),
    pricePerKarat22 |-> Raw(60, 4000000), pricePerKarat18 |-> Raw(49, 13000000)],
   [pricePerOunce |-> Raw(1, 0), pricePerKarat24 |-> Raw(4000, 1),
    pricePerKarat22 |-> Raw(0, 1), pricePerKarat18 |-> Raw(99, 99999999)]}

PcInputs ==
  [base : PcBases, oldOff : PcOffsets, newOff : PcOffsets,
   lastUpdated : {0, 1700000000}, oldRest : PcRests, newRest : PcRests]

\* The record getCurrentContractPrices returns for the input in.
PcOld(in) ==
  [pricePerGram |-> RawAdd(in.base, RawOfInt(in.oldOff)),
   pricePerOunce |-> in.oldRest.pricePerOunce,
   pricePerKarat24 |-> in.oldRest.pricePerKarat24,
   pricePerKarat22 |-> in.oldRest.pricePerKarat22,
   pricePerKarat18 |-> in.oldRest.pricePerKarat18,
   lastUpdated |-> in.lastUpdated]

\* The candidate PriceSet for the input in.
PcNew(in) ==
  [pricePerGram |-> RawAdd(in.base, RawOfInt(in.newOff)),
   pricePerOunce |-> in.newRest.pricePerOunce,
   pricePerKarat24 |-> in.newRest.pricePerKarat24,
   pricePerKarat22 |-> in.newRest.pricePerKarat22,
   pricePerKarat18 |-> in.newRest.pricePerKarat18]

InitPC ==
  /\ Idle
  /\ env = Settings
  /\ pcIn \in PcInputs
  /\ pcOut = None
  /\ calcIn = 0
  /\ calcOut = None

DecidePC ==
  /\ pcOut = None
  /\ pcOut' = Some(pricesChanged(PcOld(pcIn), PcNew(pcIn)))
  /\ UNCHANGED <<ledgerVars, started, pc, retryVars, frame, result, error, response>>
  /\ UNCHANGED <<sent, pcIn, calcIn, calcOut, lastCall, fetcherVars, startupVars>>

NextPC == DecidePC

SpecPC == InitPC /\ [][NextPC]_vars

\* ----------------------------------------------- calculatePrices alone
\* apiData.price values, in QuoteUnit: negative, zero, tiny, 0.0003 USD,
\* 1 USD, one gram's worth, 1024.09 USD, 2048.18 USD, and sixty prices from
\* 2037.50 USD up in steps of 0.0004.
CalcInputs ==
  {-20375000, -10000, -1, 0, 1, 3, 10000, 311035, 10240900, 20481800}
  \cup {20375000 + 4 * k : k \in 0..59}

InitCalc ==
  /\ Idle
  /\ env = Settings
  /\ pcIn = NoInput
  /\ pcOut = None
  /\ calcIn \in CalcInputs
  /\ calcOut = None

Calculate ==
  /\ calcOut = None
  /\ calcOut' = Some(calculatePrices(calcIn))
  /\ UNCHANGED <<ledgerVars, started, pc, retryVars, frame, result, error, response>>
  /\ UNCHANGED <<sent, pcIn, pcOut, calcIn, lastCall, fetcherVars, startupVars>>

NextCalc == Calculate

SpecCalc == InitCalc /\ [][NextCalc]_vars

\* ------------------------------------- calculatePrices on tiny prices
\* apiData.price values in units of 10^-8 USD: every price up to 0.000004
\* USD, then 0.0001 USD, about 0.03 USD and 0.5 USD.
FineInputs == 1..400 \cup {10000, 3110350, 50000000}

InitCalcFine ==
  /\ Idle
  /\ env = Settings
  /\ pcIn = NoInput
  /\ pcOut = None
  /\ calcIn \in FineInputs
  /\ calcOut = None

CalculateFine ==
  /\ calcOut = None
  /\ calcOut' = Some(calculatePricesAt(calcIn, 8))
  /\ UNCHANGED <<ledgerVars, started, pc, retryVars, frame, result, error, response>>
  /\ UNCHANGED <<sent, pcIn, pcOut, calcIn, lastCall, fetcherVars, startupVars>>

NextCalcFine == CalculateFine

SpecCalcFine == InitCalcFine /\ [][NextCalcFine]_vars

\* ------------------------------------------------ fetchGoldPrice alone
\* Calls of fetchGoldPrice made one after the other.
MaxCalls == 12

InitFetch ==
  /\ Idle
  /\ env = Settings
  /\ pcIn = NoInput
  /\ pcOut = None
  /\ calcIn = 0
  /\ calcOut = None

\* Mutant: a failed request is sent once more before the error is thrown.
FetchCallRetriesOnce ==
  /\ calls < MaxCalls
  /\ \E r \in Responses :
       /\ fetchIn' = r
       /\ fetchOut' = Some(fetchGoldPrice(r))
       /\ requests' = IF fetchGoldPrice(r).ok THEN requests + 1 ELSE requests + 2
  /\ calls' = calls + 1
  /\ UNCHANGED <<ledgerVars, started, pc, retryVars, frame, result, error, response>>
  /\ UNCHANGED <<sent, pcIn, pcOut, calcIn, calcOut, lastCall, startupVars>>

\* One call of fetchGoldPrice: its single axios.get ends in r, and the call
\* returns response.data or throws.
FetchCall ==
  /\ calls < MaxCalls
  /\ \E r \in Responses :
       /\ fetchIn' = r
       /\ fetchOut' = Some(fetchGoldPrice(r))
       /\ requests' = requests + 1
  /\ calls' = calls + 1
  /\ UNCHANGED <<ledgerVars, started, pc, retryVars, frame, result, error, response>>
  /\ UNCHANGED <<sent, pcIn, pcOut, calcIn, calcOut, lastCall, startupVars>>

NextFetch == FetchCall

SpecFetch == InitFetch /\ [][NextFetch]_vars

\* ------------------------------------------------------- process start
\* node src/index.js with any set of settings in the environment: nothing
\* of index.js has run yet.
InitStartup ==
  /\ env \in SUBSET Settings
  /\ boot = "import"
  /\ initialized = "no"
  /\ exitPath = "none"
  /\ ledger = Deployed
  /\ owner = Wallet
  /\ blockTime = 1
  /\ mempool = <<>>
  /\ receipts = <<>>
  /\ started = 0
  /\ pc = [c \in Callers |-> "idle"]
  /\ retryCount = [c \in Callers |-> 0]
  /\ attempts = [c \in Callers |-> 0]
  /\ delays = [c \in Callers |-> 0]
  /\ fetchErr = [c \in Callers |-> NoError]
  /\ quote = [c \in Callers |-> None]
  /\ newPrices = [c \in Callers |-> None]
  /\ currentPrices = [c \in Callers |-> None]
  /\ needsUpdate = [c \in Callers |-> FALSE]
  /\ fees = [c \in Callers |-> NoFees]
  /\ txOf = [c \in Callers |-> 0]
  /\ sent = [c \in Callers |-> 0]
  /\ result = [c \in Callers |-> NoResult]
  /\ error = [c \in Callers |-> NoError]
  /\ response = [c \in Callers |-> "none"]
  /\ lastCall = NoCall
  /\ fetchIn = NoResponse
  /\ fetchOut = None
  /\ requests = 0
  /\ calls = 0
  /\ pcIn = NoInput
  /\ pcOut = None
  /\ calcIn = 0
  /\ calcOut = None

\* What the start of the process leaves alone.
runVars ==
  <<ledgerVars, started, pc, retryVars, frame, result, error, response, sent,
    pcIn, pcOut, calcIn, calcOut, lastCall, fetcherVars>>

\* The static imports of index.js are evaluated before its body: loading
\* services/oracleUpdater.js runs initialize() at the end of that module.
\* With its settings present it binds provider, wallet and contract; with
\* one of them undefined, ethers takes the undefined argument or throws,
\* and a throw ends the loading of index.js before its first statement.
LoadModules ==
  /\ boot = "import"
  /\ \E throws \in BOOLEAN :
       /\ throws => ~(BlockchainSettings \subseteq env)
       /\ IF throws
          THEN /\ initialized' = "threw"
               /\ boot' = "exited"
               /\ exitPath' = "module load"
          ELSE /\ initialized' = "bound"
               /\ boot' = "validate"
               /\ UNCHANGED exitPath
  /\ UNCHANGED <<env, runVars>>

\* The first statement of index.js: validateConfig() in try/catch, whose
\* catch logs and calls process.exit(1).
ValidateConfig ==
  /\ boot = "validate"
  /\ IF RequiredSettings \subseteq env
     THEN /\ boot' = "listen"
          /\ UNCHANGED exitPath
     ELSE /\ boot' = "exited"
          /\ exitPath' = "validateConfig"
  /\ UNCHANGED <<env, initialized, runVars>>

\* The last statement of index.js: startServer().
StartServer ==
  /\ boot = "listen"
  /\ boot' = "serving"
  /\ UNCHANGED <<env, initialized, exitPath, runVars>>

NextStartup ==
  \/ LoadModules
  \/ ValidateConfig
  \/ StartServer

SpecStartup == InitStartup /\ [][NextStartup]_vars

\* ================================================================ claims
FetchErrors ==
  {"GoldAPI request failed", "GoldAPI did not respond",
   "Invalid response format from GoldAPI"}

AbsInt(i) == IF i < 0 THEN -i ELSE i

\* C1: when every fetch attempt of getGoldPrices failed, exactly
\* maxRetries + 1 = 4 attempts were made, separated by maxRetries delays;
\* the call then raises the error of the last (fourth) attempt and returns
\* no prices.
C1_ExhaustedAfterFourAttempts ==
  \A c \in Callers :
    (pc[c] = "thrown" /\ error[c].kind \in FetchErrors) =>
      /\ attempts[c] = maxRetries + 1
      /\ attempts[c] = 4
      /\ delays[c] = maxRetries
      /\ error[c] = fetchErr[c]
      /\ error[c].attempt = attempts[c]
      /\ newPrices[c] = None
      /\ result[c] = NoResult

C1_Witness ==
  \E c \in Callers :
    /\ pc[c] = "thrown"
    /\ error[c].kind = "GoldAPI did not respond"
    /\ attempts[c] = 4

\* C2, as claimed: in one cycle the number of fetch attempts never exceeds
\* maxRetries.
C2_AttemptsWithinMaxRetries ==
  \A c \in Callers : attempts[c] <= maxRetries

\* C2, amended: in one cycle the number of fetch attempts never exceeds
\* maxRetries + 1 (the first attempt and maxRetries retries), for every
\* pattern of fetch failures.
C2_AttemptsWithinMaxRetriesPlusOne ==
  \A c \in Callers : attempts[c] <= maxRetries + 1

C2_Witness ==
  \E c \in Callers : attempts[c] = maxRetries + 1 /\ pc[c] = "read"

\* C3: when attempts 1 and 2 failed and attempt 3 succeeded, getGoldPrices
\* returns the prices calculated from the quote of attempt 3, and exactly
\* two retry delays elapsed: one between each pair of consecutive attempts.
C3_ThirdAttemptSucceeds ==
  \A c \in Callers :
    (pc[c] = "read" /\ attempts[c] = 3) =>
      /\ delays[c] = 2
      /\ retryCount[c] = 2
      /\ quote[c] # None
      /\ newPrices[c] = Some(calculatePrices(quote[c][1]))
      /\ error[c] = NoError

C3_Witness ==
  \E c \in Callers :
    /\ pc[c] = "read"
    /\ attempts[c] = 3
    /\ delays[c] = 2
    /\ quote[c] = Some(20375000)
    /\ newPrices[c][1].pricePerOunce = Raw(2037, 50000000)

\* C4, as claimed: a malformed or non-positive quote is not retried; it
\* aborts the cycle on its first occurrence, with no delay and no further
\* fetch attempt.
C4_InvalidQuoteNotRetried ==
  \A c \in Callers :
    /\ fetchErr[c].kind = "Invalid response format from GoldAPI" =>
         pc[c] = "thrown" /\ delays[c] = 0 /\ attempts[c] = 1
    /\ quote[c] # None => quote[c][1] > 0

\* C5, as claimed: calculatePrices returns no PriceSet for a price <= 0.
C5_CalculateRejectsNonPositive ==
  calcIn <= 0 => calcOut = None

\* C6, as claimed: updatePrices never throws.
C6_UpdatePricesNeverThrows ==
  \A c \in Callers : pc[c] # "thrown"

FailureKinds ==
  FetchErrors \cup {"read", "estimate", "fee", "send", "reverted", "wait"}

\* C6, amended: updatePrices rethrows every failure (fetch retries
\* exhausted, ledger read, gas estimate, fee query, send, revert,
\* confirmation) to its caller as an exception and returns no value then;
\* the only values it returns are the skip and the confirmed update.
C6_UpdatePricesRethrows ==
  \A c \in Callers :
    /\ pc[c] = "thrown" =>
         /\ error[c].kind \in FailureKinds
         /\ result[c] = NoResult
    /\ pc[c] = "returned" =>
         /\ error[c] = NoError
         /\ \/ result[c].updated /\ result[c].tx > 0
            \/ ~result[c].updated /\ result[c].message = "No significant price change"

C6_Witness ==
  \E c \in Callers :
    /\ pc[c] = "thrown"
    /\ error[c].kind = "reverted"
    /\ result[c] = NoResult

\* C7: nothing serializes cycles: a trigger that is idle can start its
\* cycle whatever the other trigger's cycle is doing (up to MaxCycles
\* cycles in all), so two cycles can read the same ledger state, both decide
\* to update and both have their write for the same prices accepted.
C7_NoSerialization ==
  \A c \in Callers :
    (pc[c] = "idle" /\ started < MaxCycles) => ENABLED Start(c)

C7_Witness ==
  /\ pc["timer"] = "wait"
  /\ pc["manual"] = "wait"
  /\ currentPrices["timer"] = currentPrices["manual"]
  /\ needsUpdate["timer"]
  /\ needsUpdate["manual"]
  /\ newPrices["timer"] = newPrices["manual"]
  /\ txOf["timer"] # txOf["manual"]
  /\ Len(receipts) = 2
  /\ receipts[1].status = "ok"
  /\ receipts[2].status = "ok"
  /\ Stored(newPrices["timer"][1], ledger.lastUpdated) = ledger

\* C8: pricesChanged returns true whenever the ledger record has
\* lastUpdated = 0, whatever the candidate.
C8_NeverUpdatedAlwaysChanged ==
  (pcOut # None /\ pcIn.lastUpdated = 0) => pcOut = Some(TRUE)

C8_Witness ==
  /\ pcOut = Some(TRUE)
  /\ pcIn.lastUpdated = 0
  /\ pcIn.oldOff = pcIn.newOff
  /\ PcOld(pcIn).pricePerGram = PcNew(pcIn).pricePerGram

WithinRelativeThreshold(g, c) ==
  LET d == IF RawGt(g, c) THEN RawSub(g, c) ELSE RawSub(c, g)
  IN  d.hi = 0 /\ g.hi >= 0 /\ d.lo <= g.hi * 10000 + (g.lo \div 10000)

\* C10, as claimed: with an initialized ledger, a cycle whose candidate
\* per-gram price is within 0.01% of the stored one performs no write.
C10_SkipsWithinRelativeThreshold ==
  \A c \in Callers :
    ( /\ currentPrices[c] # None
      /\ currentPrices[c][1].lastUpdated # 0
      /\ WithinRelativeThreshold(currentPrices[c][1].pricePerGram,
                                 newPrices[c][1].pricePerGram) )
    => txOf[c] = 0

WithinAbsoluteThreshold(old, new) ==
  /\ old.lastUpdated # 0
  /\ ~RawGt(RawSub(old.pricePerGram, new.pricePerGram), RawOfInt(10000))
  /\ ~RawGt(RawSub(new.pricePerGram, old.pricePerGram), RawOfInt(10000))

\* C13: when the ledger read by a cycle is initialized and its per-gram
\* price differs from the candidate's by at most 10000 raw units, the cycle
\* returns updated: false with 'No significant price change' straight from
\* the decision: it estimates no gas and sends no transaction, and the step
\* leaves the ledger's prices and lastUpdated as they were.
C13_SkipTouchesNothing ==
  [][\A c \in Callers :
       (/\ pc[c] = "read"
        /\ pc'[c] # "read"
        /\ pc'[c] # "thrown"
        /\ WithinAbsoluteThreshold(ledger, newPrices[c][1])) =>
         /\ pc'[c] = "returned"
         /\ result'[c] =
              [NoResult EXCEPT !.message = "No significant price change"]
         /\ ~result'[c].updated
         /\ sent'[c] = 0
         /\ txOf'[c] = 0
         /\ mempool' = mempool
         /\ receipts' = receipts
         /\ ledger' = ledger]_vars

\* A cycle skipped: the ledger holds the prices of the 2037.50 quote and the
\* cycle's quote was 2037.5012 (3858 raw units per gram apart).
C13_Witness ==
  \E c \in Callers :
    /\ pc[c] = "returned"
    /\ ~result[c].updated
    /\ result[c].message = "No significant price change"
    /\ quote[c] = Some(20375012)
    /\ ledger.pricePerGram = Raw(65, 50709727)
    /\ newPrices[c][1].pricePerGram = Raw(65, 50713585)
    /\ sent[c] = 0

\* C14: a gas estimate that fails ends the cycle at once with that failure:
\* the estimate is not made again, the fee query is not made, no transaction
\* is sent and the ledger is not changed.  An estimate for a call the
\* contract would revert, or whose arguments cannot be encoded, fails.
C14_EstimateFailurePropagates ==
  [][\A c \in Callers :
       (pc[c] = "estimate" /\ pc'[c] # "estimate") =>
         /\ pc'[c] \in {"fee", "thrown"}
         /\ pc'[c] = "fee" =>
              /\ UpdateAccepted(Wallet, newPrices[c][1])
              /\ Encodable(newPrices[c][1])
         /\ pc'[c] = "thrown" =>
              /\ error'[c].kind = "estimate"
              /\ fees'[c] = NoFees
              /\ sent'[c] = 0
              /\ mempool' = mempool
              /\ receipts' = receipts
              /\ ledger' = ledger]_vars

\* A cycle ended by its gas estimate, made after the ownership had moved
\* away from the wallet; nothing was sent.
C14_Witness ==
  \E c \in Callers :
    /\ pc[c] = "thrown"
    /\ error[c].kind = "estimate"
    /\ sent[c] = 0
    /\ mempool = <<>>
    /\ owner # Wallet

\* C15, as claimed: a fee query that fails, or that returns no
\* maxFeePerGas or no maxPriorityFeePerGas, never makes the submission fail:
\* the transaction is sent, with 50 gwei and 30 gwei in the place of the
\* values that are missing.
C15_FeeOracleNeverFailsSubmission ==
  /\ \A c \in Callers : error[c].kind # "fee"
  /\ \A i \in 1..Len(mempool) :
       /\ mempool[i].fees.maxFeePerGas \in {50, 100}
       /\ mempool[i].fees.maxPriorityFeePerGas \in {30, 60}

SubmissionFailures == {"send", "reverted", "wait"}

\* C16: one cycle sends at most one write transaction.  A cycle that sent
\* one is waiting for it or has ended; when its send, its transaction or
\* the wait for it failed, the cycle ended by throwing that failure to its
\* caller, and the caller answers with an error.
C16_AtMostOneSendPerCycle ==
  \A c \in Callers :
    /\ sent[c] <= 1
    /\ sent[c] = 1 => pc[c] \in {"wait", "returned", "thrown"}
    /\ (sent[c] = 1 /\ pc[c] = "thrown") =>
         error[c].kind \in {"reverted", "wait"}
    /\ (sent[c] = 1 /\ pc[c] = "returned") => result[c].updated
    /\ error[c].kind \in SubmissionFailures =>
         /\ pc[c] = "thrown"
         /\ result[c] = NoResult
         /\ ENABLED Finish(c)

\* A cycle whose transaction was mined and reverted: one send, and the
\* failure is on its way to the caller.
C16_Witness ==
  \E c \in Callers :
    /\ sent[c] = 1
    /\ pc[c] = "thrown"
    /\ error[c].kind = "reverted"
    /\ Len(receipts) = 1
    /\ receipts[1].status = "reverted"

\* C17: a cycle has returned updated: true only when the transaction it
\* sent was mined and succeeded; the result carries the hash, the block
\* number and the gas used (as a decimal string) of that transaction's
\* receipt, and its prices are the PriceSet the transaction was sent with.
C17_UpdatedOnlyAfterConfirmation ==
  \A c \in Callers :
    /\ result[c].updated =>
         /\ pc[c] = "returned"
         /\ sent[c] = 1
         /\ result[c].tx \in 1..Len(receipts)
         /\ LET receipt == receipts[result[c].tx]
            IN  /\ receipt.status = "ok"
                /\ result[c].tx = receipt.hash
                /\ result[c].blockNumber = receipt.blockNumber
                /\ result[c].gasUsed = ToString(receipt.gasUsed)
                /\ result[c].gasUsed = "45000"
         /\ result[c].prices = newPrices[c]
         /\ result[c].prices = Some(calculatePrices(quote[c][1]))
    /\ (pc[c] = "wait" /\ txOf[c] > Len(receipts)) =>
         LET tx == mempool[txOf[c] - Len(receipts)]
         IN  tx.by = c /\ tx.prices = newPrices[c][1]

\* The second transaction mined was this cycle's: the result names it and
\* its block, after the other cycle's transaction.
C17_Witness ==
  \E c \in Callers :
    /\ pc[c] = "returned"
    /\ result[c].updated
    /\ result[c].tx = 2
    /\ result[c].blockNumber = 2
    /\ result[c].gasUsed = "45000"
    /\ result[c].prices = Some(calculatePrices(20375100))

\* One of the five prices is zero.
HasZeroPrice(p) ==
  \/ p.pricePerGram = RawZero
  \/ p.pricePerOunce = RawZero
  \/ p.pricePerKarat24 = RawZero
  \/ p.pricePerKarat22 = RawZero
  \/ p.pricePerKarat18 = RawZero

\* C18: a call of GoldOracle.updatePrices by an account that is not the
\* current owner, or with any of the five prices zero, reverts; a call that
\* reverts leaves the five prices, lastUpdated and the owner as they were.
C18_RejectedUpdateChangesNothing ==
  [][(lastCall' # lastCall /\ lastCall'.fn = "updatePrices") =>
       /\ (lastCall'.sender # owner \/ HasZeroPrice(lastCall'.prices[1])) =>
            lastCall'.status = "reverted"
       /\ lastCall'.status = "reverted" =>
            (ledger' = ledger /\ owner' = owner)]_vars

\* The owner's call with a zero 18K price was reverted, on a ledger that
\* holds prices.
C18_Witness ==
  /\ lastCall.fn = "updatePrices"
  /\ lastCall.status = "reverted"
  /\ lastCall.sender = owner
  /\ lastCall.reason = "GoldOracle: invalid 18K price"
  /\ ledger.lastUpdated # 0
  /\ ledger.pricePerKarat18 = Raw(49, 13000000)

\* C19: a call of updatePrices by the owner with five positive prices is
\* accepted; after an accepted call the stored prices are its arguments and
\* lastUpdated is the timestamp of its block, and getGoldPricePerGram,
\* getGoldPricePerOunce, getGoldPriceByKarat(24 / 22 / 18), getAllPrices
\* and getLastUpdated return exactly those values.
C19_AcceptedUpdateIsStoredAndRead ==
  lastCall.fn = "updatePrices" =>
    LET p == lastCall.prices[1]
    IN  /\ (lastCall.sender = owner /\ ~HasZeroPrice(p)) =>
             lastCall.status = "ok"
        /\ lastCall.status = "ok" =>
             /\ ledger.pricePerGram = p.pricePerGram
             /\ ledger.pricePerOunce = p.pricePerOunce
             /\ ledger.pricePerKarat24 = p.pricePerKarat24
             /\ ledger.pricePerKarat22 = p.pricePerKarat22
             /\ ledger.pricePerKarat18 = p.pricePerKarat18
             /\ ledger.lastUpdated = lastCall.at
             /\ getGoldPricePerGram = p.pricePerGram
             /\ getGoldPricePerOunce = p.pricePerOunce
             /\ getGoldPriceByKarat(24) = [ok |-> TRUE, value |-> p.pricePerKarat24]
             /\ getGoldPriceByKarat(22) = [ok |-> TRUE, value |-> p.pricePerKarat22]
             /\ getGoldPriceByKarat(18) = [ok |-> TRUE, value |-> p.pricePerKarat18]
             /\ getAllPrices =
                  [pricePerGram |-> p.pricePerGram,
                   pricePerOunce |-> p.pricePerOunce,
                   pricePerKarat24 |-> p.pricePerKarat24,
                   pricePerKarat22 |-> p.pricePerKarat22,
                   pricePerKarat18 |-> p.pricePerKarat18,
                   lastUpdated |-> lastCall.at]
             /\ getLastUpdated = lastCall.at

\* The sample prices were accepted from a new owner in the block stamped
\* 101, over prices stored earlier.
C19_Witness ==
  /\ lastCall.fn = "updatePrices"
  /\ lastCall.status = "ok"
  /\ lastCall.sender = "other"
  /\ lastCall.at = 101
  /\ getLastUpdated = 101
  /\ getGoldPriceByKarat(22).value = Raw(60, 4000000)

\* C20: isStale() is true exactly when lastUpdated is 0 or more than 3600
\* seconds lie between lastUpdated and the current block: true before any
\* update, false in the block of an update and up to an age of 3600, true
\* from 3601 on.
C20_StaleAfterOneHour ==
  /\ ledger.lastUpdated = 0 => isStale
  /\ (ledger.lastUpdated # 0 /\ blockTime - ledger.lastUpdated <= 3600) =>
       ~isStale
  /\ (ledger.lastUpdated # 0 /\ blockTime - ledger.lastUpdated >= 3601) =>
       isStale

\* Prices exactly 3600 seconds old are not stale.
C20_Witness ==
  /\ ledger.lastUpdated # 0
  /\ blockTime - ledger.lastUpdated = 3600
  /\ ~isStale

\* C24, as claimed: for a positive price, pricePerKarat24 == pricePerGram,
\* pricePerKarat22 <= pricePerKarat24 and pricePerKarat18 <= pricePerKarat22,
\* and two of them are equal only when they are 0.
C24_KaratsEqualOnlyAtZero ==
  calcOut # None =>
    LET p == calcOut[1]
    IN  /\ p.pricePerKarat24 = p.pricePerGram
        /\ ~RawGt(p.pricePerKarat22, p.pricePerKarat24)
        /\ ~RawGt(p.pricePerKarat18, p.pricePerKarat22)
        /\ p.pricePerKarat22 = p.pricePerKarat24 => p.pricePerKarat24 = RawZero
        /\ p.pricePerKarat18 = p.pricePerKarat22 => p.pricePerKarat22 = RawZero

\* C24, amended: for a positive price, pricePerKarat24 == pricePerGram,
\* pricePerKarat22 <= pricePerKarat24 and pricePerKarat18 <= pricePerKarat22;
\* the 22K price is below the 24K price once the 24K price is at least 11
\* raw units, and the 18K price below the 22K price once the 24K price is
\* at least 6 raw units.  Below that floored values can be equal without
\* being 0.
C24_KaratsOrdered ==
  calcOut # None =>
    LET p == calcOut[1]
    IN  /\ p.pricePerKarat24 = p.pricePerGram
        /\ ~RawGt(p.pricePerKarat22, p.pricePerKarat24)
        /\ ~RawGt(p.pricePerKarat18, p.pricePerKarat22)
        /\ ~RawGt(RawOfInt(11), p.pricePerKarat24) =>
             RawGt(p.pricePerKarat24, p.pricePerKarat22)
        /\ ~RawGt(RawOfInt(6), p.pricePerKarat24) =>
             RawGt(p.pricePerKarat22, p.pricePerKarat18)

\* The price 0.00000342 USD: the 24K and the 22K price are both 10.
C24_Witness ==
  /\ calcIn = 342
  /\ calcOut # None
  /\ calcOut[1].pricePerKarat24 = RawOfInt(10)
  /\ calcOut[1].pricePerKarat22 = RawOfInt(10)
  /\ calcOut[1].pricePerKarat18 = RawOfInt(8)

\* The wide number a times the small integer n, 0 < n <= 21.
RawTimes(a, n) ==
  LET l == a.lo * n
  IN  Raw(a.hi * n + (l \div DECIMALS), l % DECIMALS)

RawGe(a, b) == ~RawGt(b, a)

\* k == floor(x * n / d) for wide integers k and x: d*k <= n*x < d*k + d.
IsFloorOfRatio(k, x, n, d) ==
  /\ RawGe(RawTimes(x, n), RawTimes(k, d))
  /\ RawGt(RawAdd(RawTimes(k, d), RawOfInt(d)), RawTimes(x, n))

\* C25, as claimed: the integers calculatePrices returns satisfy
\* pricePerKarat22 == floor(pricePerKarat24 * 22 / 24) and
\* pricePerKarat18 == floor(pricePerKarat24 * 18 / 24), taken from the
\* floored pricePerKarat24 (22/24 = 11/12, 18/24 = 3/4).
C25_KaratsFromFlooredK24 ==
  calcOut # None =>
    LET p == calcOut[1]
    IN  /\ IsFloorOfRatio(p.pricePerKarat22, p.pricePerKarat24, 11, 12)
        /\ IsFloorOfRatio(p.pricePerKarat18, p.pricePerKarat24, 3, 4)

\* C25, amended: the 22K and the 18K price are floored from the unfloored
\* per-gram price, so each is floor(pricePerKarat24 * 22 / 24), or
\* floor(pricePerKarat24 * 18 / 24), or one more than that.
C25_KaratsWithinOneOfFlooredK24 ==
  calcOut # None =>
    LET p == calcOut[1]
        one == RawOfInt(1)
    IN  /\ \/ IsFloorOfRatio(p.pricePerKarat22, p.pricePerKarat24, 11, 12)
           \/ IsFloorOfRatio(RawSub(p.pricePerKarat22, one), p.pricePerKarat24, 11, 12)
        /\ \/ IsFloorOfRatio(p.pricePerKarat18, p.pricePerKarat24, 3, 4)
           \/ IsFloorOfRatio(RawSub(p.pricePerKarat18, one), p.pricePerKarat24, 3, 4)

\* The price 2037.51 USD: pricePerKarat24 is 6550741877, whose 22/24 floors
\* to 6004846720, and pricePerKarat22 is 6004846721.
C25_Witness ==
  /\ calcIn = 20375100
  /\ calcOut # None
  /\ calcOut[1].pricePerKarat24 = Raw(65, 50741877)
  /\ calcOut[1].pricePerKarat22 = Raw(60, 4846721)
  /\ calcOut[1].pricePerKarat18 = Raw(49, 13056408)

\* C26: for a positive spot price p, pricePerOunce == floor(p * 10^8) and
\* pricePerGram == floor(p / 31.1035 * 10^8), truncated and never rounded
\* up; p = 2037.50 gives 203750000000 per ounce and
\* floor(203750000000 / 31.1035) = 6550709727 per gram.
C26_OunceAndGramAreExactFloors ==
  (calcIn > 0 /\ calcOut # None) =>
    /\ calcOut[1].pricePerOunce =
         Raw(calcIn \div QuoteUnit, (calcIn % QuoteUnit) * (DECIMALS \div QuoteUnit))
    /\ calcOut[1].pricePerGram = FloorScaled(calcIn, GRAMS_PER_OUNCE_E4)
    /\ calcIn = 20375000 =>
         /\ calcOut[1].pricePerOunce = Raw(2037, 50000000)
         /\ calcOut[1].pricePerGram = Raw(65, 50709727)

\* What the views return for a ledger that was never updated.
NeverUpdated ==
  /\ getGoldPricePerGram = RawZero
  /\ getGoldPricePerOunce = RawZero
  /\ getGoldPriceByKarat(24).value = RawZero
  /\ getGoldPriceByKarat(22).value = RawZero
  /\ getGoldPriceByKarat(18).value = RawZero
  /\ getLastUpdated = 0
  /\ isStale

\* The step is a call of updatePrices that did not revert.
AcceptedUpdateStep ==
  /\ lastCall' # lastCall
  /\ lastCall'.fn = "updatePrices"
  /\ lastCall'.status = "ok"

\* The step is a call of transferOwnership that did not revert.
AcceptedTransferStep ==
  /\ lastCall' # lastCall
  /\ lastCall'.fn = "transferOwnership"
  /\ lastCall'.status = "ok"

\* C21, as claimed: right after deployment the five prices and lastUpdated
\* are 0, the owner is the deployer and isStale() is true, and all of this
\* stays so until the first accepted updatePrices.
C21_DeployedStatePersists ==
  /\ NeverUpdated /\ owner = Wallet
  /\ [][(NeverUpdated /\ owner = Wallet /\ ~AcceptedUpdateStep)
          => (NeverUpdated' /\ owner' = Wallet)]_vars

\* C21, amended: right after deployment the five prices and lastUpdated are
\* 0, the owner is the deployer and isStale() is true; the prices,
\* lastUpdated and staleness stay so until the first accepted updatePrices,
\* which ends it, and the owner changes by an accepted transferOwnership
\* only, before or after that update.
C21_NeverUpdatedPersists ==
  /\ NeverUpdated /\ owner = Wallet
  /\ [][/\ (NeverUpdated /\ ~AcceptedUpdateStep) => NeverUpdated'
        /\ (NeverUpdated /\ AcceptedUpdateStep) => ~NeverUpdated'
        /\ owner' # owner => AcceptedTransferStep]_vars

\* The ownership went to another account, more than an hour passed and an
\* updatePrices reverted: the ledger is as deployed.
C21_Witness ==
  /\ NeverUpdated
  /\ owner # Wallet
  /\ blockTime = 3702
  /\ lastCall.fn = "updatePrices"
  /\ lastCall.status = "reverted"
  /\ lastCall.at = 3702

\* C22: exactly the current owner can update prices or transfer ownership.
\* A call by another account reverts with 'caller is not the owner' and
\* changes neither owner nor ledger; the owner's updatePrices with five
\* positive prices and the owner's transferOwnership to a non-zero address
\* are accepted; an accepted transferOwnership(n) makes n the owner, after
\* which n's updatePrices is accepted and the previous owner's reverts; a
\* transferOwnership by a non-owner or to the zero address reverts and
\* leaves owner unchanged.
C22_OnlyCurrentOwnerActs ==
  [][lastCall' # lastCall =>
      LET call == lastCall'
          valid == call.prices # None /\ ~HasZeroPrice(call.prices[1])
      IN  /\ call.status = "ok" => call.sender = owner
          /\ call.sender # owner =>
               /\ call.status = "reverted"
               /\ call.reason = "GoldOracle: caller is not the owner"
               /\ owner' = owner
               /\ ledger' = ledger
          /\ (call.fn = "updatePrices" /\ call.sender = owner /\ valid) =>
               call.status = "ok"
          /\ (call.fn = "transferOwnership" /\ call.sender = owner
                /\ call.newOwner # ZeroAddress) =>
               (call.status = "ok" /\ owner' = call.newOwner)
          /\ (call.fn = "transferOwnership"
                /\ (call.sender # owner \/ call.newOwner = ZeroAddress)) =>
               (call.status = "reverted" /\ owner' = owner)
          /\ call.fn = "updatePrices" => owner' = owner
          /\ (lastCall.fn = "transferOwnership" /\ lastCall.status = "ok"
                /\ call.fn = "updatePrices") =>
               /\ (call.sender = lastCall.newOwner /\ valid) => call.status = "ok"
               /\ (call.sender = lastCall.sender
                    /\ lastCall.sender # lastCall.newOwner) =>
                    call.status = "reverted"]_vars

\* The deployer handed the contract over and then had its updatePrices,
\* with the sample prices, reverted.
C22_Witness ==
  /\ owner # Wallet
  /\ lastCall.fn = "updatePrices"
  /\ lastCall.sender = Wallet
  /\ lastCall.prices = Some(SamplePrices)
  /\ lastCall.status = "reverted"
  /\ lastCall.reason = "GoldOracle: caller is not the owner"
  /\ ledger = Deployed

\* C23: a failed cycle never crashes the process.  The failure of a cycle
\* the timer started is caught and logged, that of a cycle started by POST
\* /update-prices is answered with 500 and success:false; the process is
\* running in every state, the caller of a failed cycle can always handle
\* the failure, and a caller that is idle, after a failure as well, can
\* start the next cycle.
C23_FailedCycleNeverCrashes ==
  /\ [](/\ ProcessRunning
        /\ \A c \in Callers :
             /\ pc[c] = "thrown" => ENABLED Finish(c)
             /\ (pc[c] = "idle" /\ started < MaxCycles) => ENABLED Start(c)
             /\ response[c] \in {"500", "logged error"} => pc[c] = "idle")
  /\ [][\A c \in Callers :
          (pc[c] = "thrown" /\ pc'[c] # "thrown") =>
            /\ pc'[c] = "idle"
            /\ response'[c] = IF c = "manual" THEN "500" ELSE "logged error"
            /\ ledger' = ledger]_vars

\* A cycle of each caller failed: the timer's was logged, the manual one
\* was answered with 500, and both callers are ready again.
C23_Witness ==
  /\ response["timer"] = "logged error"
  /\ response["manual"] = "500"
  /\ pc["timer"] = "idle"
  /\ pc["manual"] = "idle"
  /\ ProcessRunning

\* C27: fetchGoldPrice sends exactly one request per call, whatever the
\* request ends in, and it throws an error and returns no quote when the
\* upstream answers with an error status, when the body has no price field
\* or a NaN price, and when no response arrives.
C27_OneRequestAndNoQuoteOnFailure ==
  /\ requests = calls
  /\ calls > 0 =>
       LET out == fetchOut[1]
       IN  /\ fetchIn.kind \in {"status", "noprice", "nan", "noresponse"} =>
                (~out.ok /\ out.error # "none" /\ out.price = 0)
           /\ fetchIn.kind = "status" => out.error = "GoldAPI request failed"
           /\ fetchIn.kind = "noresponse" => out.error = "GoldAPI did not respond"
           /\ fetchIn.kind \in {"noprice", "nan"} =>
                out.error = "Invalid response format from GoldAPI"
           /\ out.ok => (fetchIn.kind = "body" /\ out.price = fetchIn.price
                         /\ out.error = "none")

\* The third call got a body whose price is NaN and threw, after three
\* requests in all.
C27_Witness ==
  /\ calls = 3
  /\ requests = 3
  /\ fetchIn.kind = "nan"
  /\ fetchOut # None
  /\ ~fetchOut[1].ok
  /\ fetchOut[1].error = "Invalid response format from GoldAPI"

\* The order of the steps of one cycle: from each position of updatePrices,
\* the positions its next step can lead to.
StepOrder ==
  {<<"idle", "fetch">>, <<"fetch", "delay">>, <<"delay", "fetch">>,
   <<"fetch", "read">>, <<"fetch", "thrown">>,
   <<"read", "estimate">>, <<"read", "returned">>, <<"read", "thrown">>,
   <<"estimate", "fee">>, <<"estimate", "thrown">>,
   <<"fee", "send">>, <<"fee", "thrown">>,
   <<"send", "wait">>, <<"send", "thrown">>,
   <<"wait", "returned">>, <<"wait", "thrown">>,
   <<"returned", "idle">>, <<"thrown", "idle">>}

\* C28: within one cycle the steps come in the order fetch and calculate,
\* ledger read, decision, submission.  The ledger is read only after a
\* fetch attempt succeeded and its prices were calculated; a transaction is
\* sent only by a cycle whose decision on the ledger it read was true; a
\* cycle that fails with a fetch error or with a failed ledger read has
\* sent nothing.
C28_StepsInOrder ==
  /\ [](\A c \in Callers :
          /\ pc[c] \in {"read", "estimate", "fee", "send", "wait"} =>
               (quote[c] # None /\ newPrices[c] = Some(calculatePrices(quote[c][1])))
          /\ pc[c] \in {"estimate", "fee", "send", "wait"} =>
               /\ needsUpdate[c]
               /\ currentPrices[c] # None
               /\ pricesChanged(currentPrices[c][1], newPrices[c][1])
          /\ (pc[c] = "thrown" /\ error[c].kind \in FetchErrors \cup {"read"}) =>
               sent[c] = 0
          /\ pc[c] \in {"idle", "fetch", "delay", "read", "estimate", "fee", "send"} =>
               sent[c] = 0)
  /\ [][\A c \in Callers :
          /\ pc'[c] # pc[c] => <<pc[c], pc'[c]>> \in StepOrder
          /\ (pc[c] = "fetch" /\ pc'[c] = "read") =>
               fetchGoldPrice([kind |-> "body", price |-> quote'[c][1]]).ok
          /\ (pc[c] = "read" /\ pc'[c] = "estimate") =>
               (currentPrices'[c] = Some(ledger)
                /\ pricesChanged(ledger, newPrices[c][1]))
          /\ (pc[c] = "read" /\ pc'[c] = "returned") =>
               (~pricesChanged(ledger, newPrices[c][1]) /\ ~result'[c].updated)
          /\ sent'[c] > sent[c] =>
               /\ pc[c] = "send"
               /\ needsUpdate[c]
               /\ mempool' = Append(mempool,
                    [by |-> c, prices |-> newPrices[c][1], fees |-> fees[c]])
          /\ Len(mempool') > Len(mempool) =>
               \E d \in Callers : sent'[d] > sent[d]]_vars

\* The timer's cycle failed at its ledger read and sent nothing, while the
\* manual cycle, decided on the ledger it read, waits for its transaction.
C28_Witness ==
  /\ pc["timer"] = "thrown"
  /\ error["timer"].kind = "read"
  /\ sent["timer"] = 0
  /\ pc["manual"] = "wait"
  /\ sent["manual"] = 1
  /\ needsUpdate["manual"]
  /\ Len(mempool) + Len(receipts) = 1

\* C29: every started cycle eventually finishes, with a result or with an
\* error, provided each call it awaits eventually returns or fails; on the
\* way it makes at most maxRetries + 1 fetch attempts and sends at most one
\* transaction.
C29_EveryCycleFinishes ==
  /\ \A c \in Callers :
       (pc[c] \notin {"idle", "returned", "thrown"})
         ~> (pc[c] \in {"returned", "thrown"})
  /\ [](\A c \in Callers :
          /\ attempts[c] <= maxRetries + 1
          /\ delays[c] <= maxRetries
          /\ sent[c] <= 1)

\* A cycle finished with an error after it had used up its retries.
C29_Witness ==
  \E c \in Callers :
    /\ pc[c] = "thrown"
    /\ error[c].kind \in FetchErrors
    /\ error[c].attempt = maxRetries + 1
    /\ attempts[c] = maxRetries + 1
    /\ delays[c] = maxRetries

\* C30, as claimed: when cycles do not overlap and the service is the only
\* writer, after a cycle completed without error the ledger is within 10000
\* raw units per gram of the prices the cycle calculated from its quote,
\* and equal to them when the cycle updated.
C30_LedgerStaysWithinThreshold ==
  \A c \in Callers :
    pc[c] = "returned" =>
      /\ WithinAbsoluteThreshold(ledger, newPrices[c][1])
      /\ result[c].updated =>
           ledger.pricePerGram = newPrices[c][1].pricePerGram

\* C30, amended: a cycle that completes without error leaves the ledger, at
\* its completion, updated and within 10000 raw units per gram of the
\* prices it calculated from its quote: equal to them when it updated,
\* untouched by it when it skipped.  After that the ledger stays as it is
\* while no transaction is pending; a transaction left pending by an
\* earlier cycle whose wait failed can still be mined and move it.
C30_LedgerWithinThresholdAtCompletion ==
  [][\A c \in Callers :
       /\ (pc[c] # "returned" /\ pc'[c] = "returned") =>
            LET candidate == newPrices'[c][1]
            IN  /\ WithinAbsoluteThreshold(ledger', candidate)
                /\ result'[c].updated =>
                     /\ Stored(candidate, ledger'.lastUpdated) = ledger'
                     /\ result'[c].prices = Some(candidate)
                /\ ~result'[c].updated => ledger' = ledger
       /\ (pc[c] = "returned" /\ mempool = <<>>) => ledger' = ledger]_vars

\* The third cycle skipped on a ledger written by the first cycle, whose
\* wait had failed, as had the second's: the second cycle's transaction is
\* still pending.
C30_Witness ==
  /\ started = 3
  /\ pc["timer"] = "returned"
  /\ ~result["timer"].updated
  /\ WithinAbsoluteThreshold(ledger, newPrices["timer"][1])
  /\ Len(receipts) = 1
  /\ Len(mempool) = 1
  /\ ~WithinAbsoluteThreshold(Stored(mempool[1].prices, 1), newPrices["timer"][1])

\* C31: every transaction updateContractPrices sends carries fee parameters
\* with maxPriorityFeePerGas <= maxFeePerGas, whichever of the two come from
\* the network and whichever are the defaults.
C31_PriorityFeeWithinMaxFee ==
  \A i \in 1..Len(mempool) :
    mempool[i].fees.maxPriorityFeePerGas <= mempool[i].fees.maxFeePerGas

\* C32: at process start the required configuration is validated before
\* provider, wallet or contract are initialized: initialize() has run only
\* once validation has passed, and with a required setting missing the
\* process ends through the failure path of validateConfig without
\* initialize() ever running.
C32_ValidatedBeforeInitialize ==
  /\ initialized # "no" => (boot \in {"listen", "serving"}
                             /\ RequiredSettings \subseteq env)
  /\ (boot = "exited" /\ ~(RequiredSettings \subseteq env)) =>
       (exitPath = "validateConfig" /\ initialized = "no")

\* All five stored prices are zero.
AllPricesZero ==
  /\ ledger.pricePerGram = RawZero
  /\ ledger.pricePerOunce = RawZero
  /\ ledger.pricePerKarat24 = RawZero
  /\ ledger.pricePerKarat22 = RawZero
  /\ ledger.pricePerKarat18 = RawZero

\* All five stored prices are positive.
AllPricesPositive ==
  /\ RawPositive(ledger.pricePerGram)
  /\ RawPositive(ledger.pricePerOunce)
  /\ RawPositive(ledger.pricePerKarat24)
  /\ RawPositive(ledger.pricePerKarat22)
  /\ RawPositive(ledger.pricePerKarat18)

\* C33: in every ledger state lastUpdated == 0 implies that the five
\* stored prices are 0 and lastUpdated != 0 implies that they are all > 0;
\* a non-zero lastUpdated never returns to 0 and never decreases, and no
\* price goes back to 0.
C33_LedgerInitializedForGood ==
  /\ [](/\ ledger.lastUpdated = 0 => AllPricesZero
        /\ ledger.lastUpdated # 0 => AllPricesPositive)
  /\ [][ledger.lastUpdated # 0 =>
          (ledger'.lastUpdated >= ledger.lastUpdated /\ AllPricesPositive')]_vars

\* The ledger was updated, later than at deployment, and the owner's
\* attempt to write five zeros over it reverted.
C33_Witness ==
  /\ ledger.lastUpdated > 1
  /\ AllPricesPositive
  /\ lastCall.fn = "updatePrices"
  /\ lastCall.sender = owner
  /\ lastCall.status = "reverted"
  /\ lastCall.prices # None
  /\ lastCall.prices[1].pricePerGram = RawZero
  /\ lastCall.prices[1].pricePerKarat18 = RawZero
  /\ lastCall.at > ledger.lastUpdated

\* C34: ledger operations touch only their own part of the state.  A call
\* of transferOwnership, accepted or not, leaves the five prices and
\* lastUpdated as they were; a call of updatePrices leaves owner as it was;
\* a call of a view function, as the service's getCurrentContractPrices
\* and isStale make them, changes neither; a reverted call changes nothing;
\* and no call changes anything of the service.
C34_OperationsKeepToTheirPart ==
  [][lastCall' # lastCall =>
      /\ lastCall'.fn = "transferOwnership" => ledger' = ledger
      /\ lastCall'.fn = "updatePrices" => owner' = owner
      /\ lastCall'.fn \in Views => (ledger' = ledger /\ owner' = owner)
      /\ lastCall'.status = "reverted" => (ledger' = ledger /\ owner' = owner)
      /\ blockTime' = blockTime
      /\ serviceVars' = serviceVars]_vars

\* The service's wallet asked isStale() of a ledger updated more than an
\* hour before, after the ownership had gone to another account.
C34_Witness ==
  /\ lastCall.fn = "isStale"
  /\ lastCall.sender = Wallet
  /\ lastCall.status = "ok"
  /\ lastCall.at = 3702
  /\ ledger.lastUpdated = 1
  /\ isStale
  /\ owner # Wallet

====
